---- MODULE Spec2Model ----
(***************************************************************************)
(* A model of the node-orm-demo data layer: the Users, Profiles, Posts,    *)
(* Tags and PostTags tables and the controllers that read and write them.  *)
(* Every `await` of a controller is one step of the client that runs it,   *)
(* so that the steps of concurrent requests interleave as they do on the   *)
(* event loop.  A row written under `{ transaction }` is kept in the       *)
(* client's transaction until commit; every other statement acts on the    *)
(* committed tables at once.                                               *)
(***************************************************************************)
EXTENDS Integers, Sequences, FiniteSets, Bags, TLC

VARIABLES
    users,      \* committed rows of Users:    [id, firstName, lastName, email]
    profiles,   \* committed rows of Profiles: [id, userId, bio]
    posts,      \* committed rows of Posts:    [id, title, content, userId, status]
    tags,       \* committed rows of Tags:     [id, name]
    postTags,   \* committed rows of PostTags: a bag of <<postId, tagId>>
    seq,        \* the tables' id sequences:   [user, profile, post, tag]
    cp,         \* createPost requests, one per client
    up,         \* updatePost requests, one per client
    us,         \* createUser / updateUser requests, one per client
    pf,         \* profile requests, one per client
    lk,         \* addTagToPost / removeTagFromPost requests, one per client
    tg,         \* updateTag / deleteTag requests, one per client
    ls,         \* the getAllPosts request
    served      \* requests accepted so far

vars == <<users, profiles, posts, tags, postTags, seq, cp, up, us, pf, lk, tg, ls,
          served>>

-----------------------------------------------------------------------------
(* Bounds *)

\* Requests accepted in one run.
MaxRequests == 2

\* The clock is followed up to this time; the initial tables are older.
MaxNow == 3

\* The connections requests arrive on: two requests can be in flight at once,
\* and a connection takes its next request when the last one is finished.
Clients == {1, 2}

-----------------------------------------------------------------------------
(* JSON values *)

Null == "<null>"
Undef == "<undefined>"

\* JavaScript truthiness of a string-or-null request field.
Falsy(v) == v \in {Null, Undef, ""}

Range(s) == {s[i] : i \in DOMAIN s}

\* The rows `rows` (a sequence) as a bag: a row listed twice counts twice.
BagOfSeq(rows) ==
    [p \in Range(rows) |-> Cardinality({i \in DOMAIN rows : rows[i] = p})]

-----------------------------------------------------------------------------
(* Model definitions: columns and constraints *)

\* Post.status: DataTypes.ENUM('active', 'draft', 'archived').
StatusEnum == {"active", "draft", "archived"}

\* allowNull: false rejects null and undefined, and nothing else.
NotNullOk(v) == v \notin {Null, Undef}

\* validate: { isEmail: true }: the well-formed addresses among the values the
\* requests carry.
EmailLike == {"alice@example.com", "bob@example.com"}
IsEmail(v) == v \in EmailLike

\* The users table without the unique index on email.
EmailUnique_noIndex(rows, id, email) == TRUE

\* User.email unique: true. No other row may hold the email.
EmailUnique(rows, id, email) == \A u \in rows : u.id # id => u.email # email

\* The join table without its composite primary key.
PostTagUnique_noKey(existing, rows) == TRUE

\* Post.belongsToMany(Tag, { through: PostTag }): the join table's key is
\* (postId, tagId), so no pair may be stored twice.
PostTagUnique(existing, rows) ==
    /\ \A i, j \in DOMAIN rows : rows[i] = rows[j] => i = j
    /\ \A i \in DOMAIN rows : ~BagIn(rows[i], existing)

\* A variant of PostTagRefsOk for a join table without foreign keys.
PostTagRefsOk_noForeignKey(postRows, tagRows, rows) == TRUE

\* The foreign keys of the join table: both rows must exist.
PostTagRefsOk(postRows, tagRows, rows) ==
    \A i \in DOMAIN rows :
        /\ \E p \in postRows : p.id = rows[i][1]
        /\ \E t \in tagRows : t.id = rows[i][2]

\* Model.findByPk on a committed table.
findByPk(rows, id) == {r \in rows : r.id = id}

\* A variant of UserRefOk for tables without the userId foreign key.
UserRefOk_noForeignKey(userRows, userId) == TRUE

\* The foreign key of Profile.userId and Post.userId: an inserted row must
\* name a stored user.
UserRefOk(userRows, userId) == findByPk(userRows, userId) # {}

-----------------------------------------------------------------------------
(* Initial state *)

IdleCp == [pc |-> "idle", userId |-> 0, title |-> Undef, content |-> Undef,
           status |-> Undef, tags |-> <<>>, hookErr |-> FALSE,
           post |-> {}, postId |-> 0, sub |-> <<>>, links |-> <<>>,
           made |-> {}, hooks |-> 0, resp |-> 0, err |-> "", txn |-> ""]

IdleUp == [pc |-> "idle", op |-> "", id |-> 0, title |-> Undef, content |-> Undef,
           status |-> Undef, resp |-> 0, err |-> "", body |-> {}]

IdleUs == [pc |-> "idle", op |-> "", id |-> 0, firstName |-> Undef,
           lastName |-> Undef, email |-> Undef, resp |-> 0, err |-> "",
           body |-> {}]

IdlePf == [pc |-> "idle", op |-> "", userId |-> 0, bio |-> Undef, resp |-> 0,
           err |-> "", body |-> {}]

IdleLk == [pc |-> "idle", op |-> "", postId |-> 0, tagId |-> 0, post |-> {}, tag |-> {},
           linked |-> FALSE, resp |-> 0, err |-> ""]

IdleTg == [pc |-> "idle", op |-> "", id |-> 0, name |-> Undef, resp |-> 0,
           err |-> "", body |-> {}]

IdleLs == [pc |-> "idle", page |-> 1, limit |-> 10, status |-> "active",
           count |-> -1, rows |-> <<>>, found |-> FALSE, resp |-> 0, err |-> "",
           totalPages |-> 0, currentPage |-> 0]

\* The stored rows the requests start from: the first user, post and tag of
\* the seed script, not yet joined.
SeedUsers == {[id |-> 1, firstName |-> "Alice", lastName |-> "Johnson",
               email |-> "alice@example.com"]}
SeedTags == {[id |-> 1, name |-> "Technology"]}
SeedPosts == {[id |-> 1, title |-> "Alice's first post",
               content |-> "Alice discusses web development tips.",
               userId |-> 1, status |-> "active", createdAt |-> 1]}

Init ==
    /\ users = SeedUsers
    /\ profiles = {}
    /\ posts = SeedPosts
    /\ tags = SeedTags
    /\ postTags = EmptyBag
    /\ seq = [user |-> 2, profile |-> 1, post |-> 2, tag |-> 2, now |-> 2]
    /\ cp = [c \in Clients |-> IdleCp]
    /\ up = [c \in Clients |-> IdleUp]
    /\ us = [c \in Clients |-> IdleUs]
    /\ pf = [c \in Clients |-> IdlePf]
    /\ lk = [c \in Clients |-> IdleLk]
    /\ tg = [c \in Clients |-> IdleTg]
    /\ ls = IdleLs
    /\ served = 0

\* The tables after the seed script: five users with a profile each, eight
\* posts, seven tags and the fifteen pairs the script joins.
SeededUsers ==
    {[id |-> 1, firstName |-> "Alice", lastName |-> "Johnson",
      email |-> "alice@example.com"],
     [id |-> 2, firstName |-> "Bob", lastName |-> "Smith",
      email |-> "bob@example.com"],
     [id |-> 3, firstName |-> "Charlie", lastName |-> "Brown",
      email |-> "charlie@example.com"],
     [id |-> 4, firstName |-> "Diana", lastName |-> "Doe",
      email |-> "diana@example.com"],
     [id |-> 5, firstName |-> "Eve", lastName |-> "Adams",
      email |-> "eve@example.com"]}

SeededProfiles ==
    {[id |-> 1, userId |-> 1, bio |-> "Alice is a web developer"],
     [id |-> 2, userId |-> 2, bio |-> "Bob is a software engineer"],
     [id |-> 3, userId |-> 3, bio |-> "Charlie is a data scientist"],
     [id |-> 4, userId |-> 4, bio |-> "Diana is a project manager"],
     [id |-> 5, userId |-> 5, bio |-> "Eve is a UI/UX designer"]}

SeededPosts ==
    {[id |-> 1, title |-> "Alice's first post",
      content |-> "Alice discusses web development tips.",
      userId |-> 1, status |-> "active",
      createdAt |-> 1],
     [id |-> 2, title |-> "Alice's second post",
      content |-> "Exploring JavaScript frameworks.",
      userId |-> 1, status |-> "draft",
      createdAt |-> 2],
     [id |-> 3, title |-> "Bob's first post",
      content |-> "Understanding the software development life cycle.",
      userId |-> 2, status |-> "archived",
      createdAt |-> 3],
     [id |-> 4, title |-> "Charlie's first post",
      content |-> "An introduction to data science.",
      userId |-> 3, status |-> "active",
      createdAt |-> 4],
     [id |-> 5, title |-> "Diana's first post",
      content |-> "Managing software projects effectively.",
      userId |-> 4, status |-> "draft",
      createdAt |-> 5],
     [id |-> 6, title |-> "Eve's first post",
      content |-> "Designing for mobile applications.",
      userId |-> 5, status |-> "archived",
      createdAt |-> 6],
     [id |-> 7, title |-> "Bob's second post",
      content |-> "Version control with Git.",
      userId |-> 2, status |-> "active",
      createdAt |-> 7],
     [id |-> 8, title |-> "Alice's third post",
      content |-> "Introduction to CSS Grid.",
      userId |-> 1, status |-> "active",
      createdAt |-> 8]}

SeededTags ==
    {[id |-> 1, name |-> "Technology"], [id |-> 2, name |-> "Programming"],
     [id |-> 3, name |-> "Lifestyle"], [id |-> 4, name |-> "Management"],
     [id |-> 5, name |-> "Data Science"], [id |-> 6, name |-> "Design"],
     [id |-> 7, name |-> "Web Development"]}

SeededPostTags ==
    <<(<<1, 1>>), <<1, 2>>, <<1, 7>>, <<2, 2>>, <<2, 7>>, <<3, 1>>, <<3, 4>>,
      <<4, 1>>, <<4, 5>>, <<5, 1>>, <<5, 4>>, <<6, 6>>, <<6, 3>>, <<7, 2>>,
      <<8, 7>>>>

InitSeeded ==
    /\ users = SeededUsers
    /\ profiles = SeededProfiles
    /\ posts = SeededPosts
    /\ tags = SeededTags
    /\ postTags = BagOfSeq(SeededPostTags)
    /\ seq = [user |-> 6, profile |-> 6, post |-> 9, tag |-> 8, now |-> 9]
    /\ cp = [c \in Clients |-> IdleCp]
    /\ up = [c \in Clients |-> IdleUp]
    /\ us = [c \in Clients |-> IdleUs]
    /\ pf = [c \in Clients |-> IdlePf]
    /\ lk = [c \in Clients |-> IdleLk]
    /\ tg = [c \in Clients |-> IdleTg]
    /\ ls = IdleLs
    /\ served = 0

-----------------------------------------------------------------------------
(* createPost *)

\* A connection is free when it has no request, or its request is answered
\* and nothing the request started is still running.
FreeCp(r) ==
    \/ r.pc = "idle"
    \/ /\ r.pc = "done"
       /\ \A i \in DOMAIN r.sub : r.sub[i].st \notin {"find", "create", "commit"}

\* A request arrives on the first free connection.
ArrivesCp(c) ==
    /\ served < MaxRequests
    /\ FreeCp(cp[c])
    /\ \A d \in Clients : d < c => ~FreeCp(cp[d])

\* sequelize.transaction(), with the request body destructured.
createPost_begin(c, body) ==
    /\ ArrivesCp(c)
    /\ served' = served + 1
    /\ cp' = [cp EXCEPT ![c] = [IdleCp EXCEPT
                 !.pc = "findUser", !.txn = "open",
                 !.userId = body.userId, !.title = body.title,
                 !.content = body.content, !.status = body.status,
                 !.tags = body.tags]]
    /\ UNCHANGED <<users, profiles, posts, tags, postTags, seq, up, us, pf, lk, tg, ls>>

\* A variant of createPost_findByPk that goes on to Post.create whatever the
\* lookup found.
createPost_findByPk_noCheck(c) ==
    /\ cp[c].pc = "findUser"
    /\ cp' = [cp EXCEPT ![c] = [@ EXCEPT !.pc = "create"]]
    /\ UNCHANGED <<users, profiles, posts, tags, postTags, seq, up, us, pf, lk,
                   served, tg, ls>>

\* const user = await User.findByPk(userId); if (!user) throw ...
createPost_findByPk(c) ==
    /\ cp[c].pc = "findUser"
    /\ cp' = [cp EXCEPT ![c] =
                 IF findByPk(users, cp[c].userId) = {}
                 THEN [@ EXCEPT !.pc = "rollback", !.err = "User not found"]
                 ELSE [@ EXCEPT !.pc = "create"]]
    /\ UNCHANGED <<users, profiles, posts, tags, postTags, seq, up, us, pf, lk,
                 served, tg, ls>>

\* A variant of createStatus with another fallback: status || 'active'.
createStatus_active(status) == IF Falsy(status) THEN "active" ELSE status

\* The status createPost hands to Post.create: status || 'draft'.
createStatus(status) == IF Falsy(status) THEN "draft" ELSE status

\* What Post.create answers for the values: "" when the row is accepted.
PostCreateError(title, content, userId, status) ==
    IF ~NotNullOk(title) THEN "notNull Violation: Post.title cannot be null"
    ELSE IF ~NotNullOk(content) THEN "notNull Violation: Post.content cannot be null"
    ELSE IF status \notin StatusEnum THEN "invalid input value for enum"
    ELSE IF ~UserRefOk(users, userId) THEN "foreign key constraint"
    ELSE ""

\* A variant of createPost_create: Post.create without { transaction }, so the
\* row is committed by the statement itself.
createPost_create_noTransaction(c) ==
    /\ cp[c].pc = "create"
    /\ LET r == cp[c]
           st == createStatus(r.status)
           e == PostCreateError(r.title, r.content, r.userId, st)
           row == [id |-> seq.post, title |-> r.title, content |-> r.content,
                   userId |-> r.userId, status |-> st, createdAt |-> seq.now]
       IN IF e # ""
          THEN /\ cp' = [cp EXCEPT ![c] = [@ EXCEPT !.pc = "rollback", !.err = e]]
               /\ seq' = IF e = "foreign key constraint"
                         THEN [seq EXCEPT !.post = @ + 1] ELSE seq
               /\ posts' = posts
          ELSE /\ cp' = [cp EXCEPT ![c] = [@ EXCEPT !.pc = "hook", !.postId = row.id]]
               /\ posts' = posts \cup {row}
               /\ seq' = [seq EXCEPT !.post = @ + 1]
    /\ UNCHANGED <<users, profiles, tags, postTags, up, us, pf, lk, served, tg, ls>>

\* await Post.create({ title, content, userId, status: status || 'draft' },
\* { transaction }): the row is written in the client's transaction. The
\* validators run before the INSERT is sent; an INSERT the foreign key
\* rejects has drawn its id from the sequence already, and keeps it.
createPost_create(c) ==
    /\ cp[c].pc = "create"
    /\ LET r == cp[c]
           st == createStatus(r.status)
           e == PostCreateError(r.title, r.content, r.userId, st)
           row == [id |-> seq.post, title |-> r.title, content |-> r.content,
                   userId |-> r.userId, status |-> st, createdAt |-> seq.now]
       IN IF e # ""
          THEN /\ cp' = [cp EXCEPT ![c] = [@ EXCEPT !.pc = "rollback", !.err = e]]
               /\ seq' = IF e = "foreign key constraint"
                         THEN [seq EXCEPT !.post = @ + 1] ELSE seq
          ELSE /\ cp' = [cp EXCEPT ![c] = [@ EXCEPT !.pc = "hook", !.post = {row},
                                              !.postId = row.id]]
               /\ seq' = [seq EXCEPT !.post = @ + 1]
    /\ UNCHANGED <<users, profiles, posts, tags, postTags, up, us, pf, lk,
                 served, tg, ls>>

\* The number of resolved sub-tasks a Promise.all waits for.
SubInit(tagNames) == [i \in DOMAIN tagNames |-> [st |-> "find", id |-> 0]]

\* hooks.afterCreate, run by Post.create before it resolves: the lookup of
\* the author is awaited and nothing catches what it throws. storageErr is
\* the environment: whether that lookup raises a storage error.
createPost_afterCreate(c, storageErr) ==
    /\ cp[c].pc = "hook"
    /\ LET r == cp[c]
       IN cp' = [cp EXCEPT ![c] =
                 IF storageErr
                 THEN [@ EXCEPT !.pc = "rollback", !.hooks = @ + 1,
                                !.hookErr = TRUE, !.err = "storage error"]
                 ELSE IF Len(r.tags) > 0
                 THEN [@ EXCEPT !.pc = "tags", !.hooks = @ + 1,
                                !.sub = SubInit(r.tags)]
                 ELSE [@ EXCEPT !.pc = "commit", !.hooks = @ + 1]]
    /\ UNCHANGED <<users, profiles, posts, tags, postTags, seq, up, us, pf, lk,
                 served, tg, ls>>

\* The rows a `where: { name }` matches. Postgres picks any one of them for
\* findOne; null matches no row, as name IS NULL finds none.
findAllByName(rows, name) == {t \in rows : t.name = name}

\* Tag.findOrCreate({ where: { name } }), first step: the lookup. It is not
\* given the request's transaction, so it reads the committed table.
createPost_findOrCreate_find(c, i) ==
    /\ i \in DOMAIN cp[c].sub
    /\ cp[c].sub[i].st = "find"
    /\ LET hits == findAllByName(tags, cp[c].tags[i])
       IN IF hits = {}
          THEN cp' = [cp EXCEPT ![c].sub[i].st = "create"]
          ELSE \E t \in hits :
                   cp' = [cp EXCEPT ![c].sub[i] = [st |-> "found", id |-> t.id]]
    /\ UNCHANGED <<users, profiles, posts, tags, postTags, seq, up, us, pf, lk,
                 served, tg, ls>>

\* Tag.findOrCreate, second step: the INSERT, in the transaction the call
\* opened for itself. The row draws its id and is not visible yet. A name
\* that is null fails Tag.name's allowNull: false before any INSERT, and the
\* rejection of one sub-task rejects the Promise.all the request awaits.
createPost_findOrCreate_create(c, i) ==
    /\ i \in DOMAIN cp[c].sub
    /\ cp[c].sub[i].st = "create"
    /\ LET name == cp[c].tags[i]
       IN IF ~NotNullOk(name)
          THEN /\ cp' = [cp EXCEPT ![c] =
                          [@ EXCEPT !.sub[i].st = "failed",
                                    !.pc = IF @ = "tags" THEN "rollback" ELSE @,
                                    !.err = IF cp[c].pc = "tags"
                                            THEN "notNull Violation: Tag.name cannot be null"
                                            ELSE @]]
               /\ seq' = seq
          ELSE /\ seq' = [seq EXCEPT !.tag = @ + 1]
               /\ cp' = [cp EXCEPT ![c].sub[i] = [st |-> "commit", id |-> seq.tag]]
    /\ UNCHANGED <<users, profiles, posts, tags, postTags, up, us, pf, lk, served,
                   tg, ls>>

\* Tag.findOrCreate, last step: the COMMIT of its own transaction, which
\* stores the row whatever becomes of the request's transaction.
createPost_findOrCreate_commit(c, i) ==
    /\ i \in DOMAIN cp[c].sub
    /\ cp[c].sub[i].st = "commit"
    /\ tags' = tags \cup {[id |-> cp[c].sub[i].id, name |-> cp[c].tags[i]]}
    /\ cp' = [cp EXCEPT ![c] = [@ EXCEPT !.sub[i].st = "created",
                                        !.made = @ \cup {cp[c].sub[i].id}]]
    /\ UNCHANGED <<users, profiles, posts, postTags, seq, up, us, pf, lk, served,
                   tg, ls>>

\* A variant of addTagsRows: only the first instance is joined to the post.
addTagsRows_firstOnly(postId, sub) ==
    [i \in DOMAIN sub \cap {1} |-> <<postId, sub[i].id>>]

\* tagInstances.map(tag => tag[0]) as join rows of the post: one row for
\* each instance, in the order of the request's tags.
addTagsRows(postId, sub) == [i \in DOMAIN sub |-> <<postId, sub[i].id>>]

\* await post.addTags(tagInstances.map(tag => tag[0]), { transaction }):
\* one join row per instance, written in the client's transaction; the
\* statement fails on a repeated pair or a referenced row that is gone.
createPost_addTags(c) ==
    /\ cp[c].pc = "tags"
    /\ \A i \in DOMAIN cp[c].sub : cp[c].sub[i].st \in {"found", "created"}
    /\ LET r == cp[c]
           rows == addTagsRows(r.postId, r.sub)
       IN cp' = [cp EXCEPT ![c] =
                 IF ~PostTagUnique(postTags, rows)
                 THEN [@ EXCEPT !.pc = "rollback", !.err = "Validation error"]
                 ELSE IF ~PostTagRefsOk(posts \cup r.post, tags, rows)
                 THEN [@ EXCEPT !.pc = "rollback", !.err = "foreign key constraint"]
                 ELSE [@ EXCEPT !.pc = "commit", !.links = rows]]
    /\ UNCHANGED <<users, profiles, posts, tags, postTags, seq, up, us, pf, lk,
                 served, tg, ls>>

\* await transaction.commit(); res.status(201).json(post)
createPost_commit(c) ==
    /\ cp[c].pc = "commit"
    /\ posts' = posts \cup cp[c].post
    /\ postTags' = postTags (+) BagOfSeq(cp[c].links)
    /\ cp' = [cp EXCEPT ![c] = [@ EXCEPT !.pc = "done", !.resp = 201,
                                         !.txn = "commit"]]
    /\ UNCHANGED <<users, profiles, tags, seq, up, us, pf, lk, served, tg, ls>>

\* await transaction.commit() when the storage fails the COMMIT: nothing of
\* the transaction is stored, the transaction is finished with state commit
\* all the same, and the rejection is caught by the handler's catch.
createPost_commit_fails(c) ==
    /\ cp[c].pc = "commit"
    /\ cp' = [cp EXCEPT ![c] = [@ EXCEPT !.pc = "rollback", !.txn = "commit",
                                         !.err = "storage error",
                                         !.post = {}, !.links = <<>>]]
    /\ UNCHANGED <<users, profiles, posts, tags, postTags, seq, up, us, pf, lk,
                   served, tg, ls>>

\* catch: await transaction.rollback(); res.status(400).json({ error }).
\* rollback() throws on a transaction that is finished already; the throw
\* leaves the catch block, so the handler's promise rejects and the handler
\* sends no response.
createPost_rollback(c) ==
    /\ cp[c].pc = "rollback"
    /\ cp' = [cp EXCEPT ![c] =
                 IF cp[c].txn = "open"
                 THEN [@ EXCEPT !.pc = "done", !.resp = 400, !.txn = "rollback",
                                !.post = {}, !.links = <<>>]
                 ELSE [@ EXCEPT !.pc = "rejected"]]
    /\ UNCHANGED <<users, profiles, posts, tags, postTags, seq, up, us, pf, lk,
                 served, tg, ls>>

\* The request's transaction is open from sequelize.transaction() until its
\* commit or rollback.
TxOpen(r) == r.txn = "open"

\* The insert of a Post row under { transaction } checks its userId key and
\* holds the user's row against deletion until the transaction ends.
UserKeyLocked(id) ==
    \E c \in Clients : TxOpen(cp[c]) /\ \E p \in cp[c].post : p.userId = id

\* The insert of a join row under { transaction } holds the tag's row against
\* deletion likewise.
TagKeyLocked(id) ==
    \E c \in Clients :
        TxOpen(cp[c]) /\ \E i \in DOMAIN cp[c].links : cp[c].links[i][2] = id

-----------------------------------------------------------------------------
(* updatePost *)

\* A connection with no request in flight.
FreeUp(r) == r.pc \in {"idle", "done"}

ArrivesUp(c) ==
    /\ served < MaxRequests
    /\ FreeUp(up[c])
    /\ \A d \in Clients : d < c => ~FreeUp(up[d])

\* if (title && title.length < 5) throw ...
TitleTooShort(title) == ~Falsy(title) /\ Len(title) < 5

\* What Post.update answers for the values, before any row is touched: ""
\* when they are accepted. Model.update drops the undefined values and
\* validates the others; status allows null, and the enum column refuses
\* every other value that is not one of its three.
PostUpdateError(title, content, status) ==
    IF title = Null THEN "notNull Violation: Post.title cannot be null"
    ELSE IF content = Null THEN "notNull Violation: Post.content cannot be null"
    ELSE IF status \notin StatusEnum \cup {Null, Undef}
    THEN "invalid input value for enum"
    ELSE ""

\* A variant of PostUpdated that writes all three columns, the omitted ones
\* as they came.
PostUpdated_allColumns(row, title, content, status) ==
    [row EXCEPT !.title = title, !.content = content, !.status = status]

\* A row with the values of an update applied: undefined leaves the column.
PostUpdated(row, title, content, status) ==
    [row EXCEPT !.title = IF title = Undef THEN @ ELSE title,
                !.content = IF content = Undef THEN @ ELSE content,
                !.status = IF status = Undef THEN @ ELSE status]

\* The title check and await Post.update({ title, content, status },
\* { where: { id } }); 400 on an error, 404 when no row matched.
updatePost_update(c, id, body) ==
    /\ ArrivesUp(c)
    /\ served' = served + 1
    /\ LET req == [IdleUp EXCEPT !.op = "updatePost", !.id = id, !.title = body.title,
                                 !.content = body.content, !.status = body.status]
           e == IF TitleTooShort(body.title)
                THEN "Title must be at least 5 characters long."
                ELSE PostUpdateError(body.title, body.content, body.status)
           hit == findByPk(posts, id)
       IN IF e # ""
          THEN /\ up' = [up EXCEPT ![c] = [req EXCEPT !.pc = "done", !.resp = 400,
                                                      !.err = e]]
               /\ posts' = posts
          ELSE IF hit = {}
          THEN /\ up' = [up EXCEPT ![c] = [req EXCEPT !.pc = "done", !.resp = 404,
                                                      !.err = "Post not found"]]
               /\ posts' = posts
          ELSE /\ up' = [up EXCEPT ![c] = [req EXCEPT !.pc = "reload"]]
               /\ posts' = (posts \ hit) \cup
                     {PostUpdated(row, body.title, body.content, body.status) :
                          row \in hit}
    /\ UNCHANGED <<users, profiles, tags, postTags, seq, cp, us, pf, lk, tg, ls>>

\* const updatedPost = await Post.findByPk(id); res.status(200).json(updatedPost)
updatePost_findByPk(c) ==
    /\ up[c].pc = "reload"
    /\ up' = [up EXCEPT ![c] = [@ EXCEPT !.pc = "done", !.resp = 200,
                                        !.body = findByPk(posts, up[c].id)]]
    /\ UNCHANGED <<users, profiles, posts, tags, postTags, seq, cp, us, pf, lk,
                 served, tg, ls>>

-----------------------------------------------------------------------------
(* createUser, updateUser *)

FreeUs(r) == r.pc \in {"idle", "done"}

ArrivesUs(c) ==
    /\ served < MaxRequests
    /\ FreeUs(us[c])
    /\ \A d \in Clients : d < c => ~FreeUs(us[d])

\* The message of a SequelizeUniqueConstraintError.
UniqueViolation == "Validation error"

\* What User.create answers for the values: "" when the row is accepted.
\* The model's validators run first, the unique index on email last.
UserCreateError(rows, firstName, lastName, email) ==
    IF ~NotNullOk(firstName) THEN "notNull Violation: User.firstName cannot be null"
    ELSE IF ~NotNullOk(lastName) THEN "notNull Violation: User.lastName cannot be null"
    ELSE IF ~NotNullOk(email) THEN "notNull Violation: User.email cannot be null"
    ELSE IF ~IsEmail(email) THEN "Validation error: Validation isEmail on email failed"
    ELSE IF ~EmailUnique(rows, 0, email) THEN UniqueViolation
    ELSE ""

\* const user = await User.create({ firstName, lastName, email }): 201 with
\* the row, or 400 with the error. An INSERT the unique index rejects has
\* drawn its id from the sequence already, and keeps it.
createUser(c, body) ==
    /\ ArrivesUs(c)
    /\ served' = served + 1
    /\ LET req == [IdleUs EXCEPT !.op = "createUser", !.pc = "done",
                                 !.firstName = body.firstName,
                                 !.lastName = body.lastName, !.email = body.email]
           e == UserCreateError(users, body.firstName, body.lastName, body.email)
           row == [id |-> seq.user, firstName |-> body.firstName,
                   lastName |-> body.lastName, email |-> body.email]
       IN IF e # ""
          THEN /\ us' = [us EXCEPT ![c] = [req EXCEPT !.resp = 400, !.err = e]]
               /\ users' = users
               /\ seq' = IF e = UniqueViolation
                         THEN [seq EXCEPT !.user = @ + 1] ELSE seq
          ELSE /\ us' = [us EXCEPT ![c] = [req EXCEPT !.resp = 201, !.body = {row}]]
               /\ users' = users \cup {row}
               /\ seq' = [seq EXCEPT !.user = @ + 1]
    /\ UNCHANGED <<profiles, posts, tags, postTags, cp, up, pf, lk, tg, ls>>

\* What User.update answers for the values: "" when they are accepted.
\* Undefined values are dropped, the others validated; the unique index is
\* checked for the rows the statement writes.
UserUpdateError(rows, id, firstName, lastName, email) ==
    IF firstName = Null THEN "notNull Violation: User.firstName cannot be null"
    ELSE IF lastName = Null THEN "notNull Violation: User.lastName cannot be null"
    ELSE IF email = Null THEN "notNull Violation: User.email cannot be null"
    ELSE IF email # Undef /\ ~IsEmail(email)
    THEN "Validation error: Validation isEmail on email failed"
    ELSE IF email # Undef /\ findByPk(rows, id) # {} /\ ~EmailUnique(rows, id, email)
    THEN UniqueViolation
    ELSE ""

UserUpdated(row, firstName, lastName, email) ==
    [row EXCEPT !.firstName = IF firstName = Undef THEN @ ELSE firstName,
                !.lastName = IF lastName = Undef THEN @ ELSE lastName,
                !.email = IF email = Undef THEN @ ELSE email]

\* const [updated] = await User.update({ firstName, lastName, email },
\* { where: { id } }): 500 on an error, 404 when no row matched.
updateUser_update(c, id, body) ==
    /\ ArrivesUs(c)
    /\ served' = served + 1
    /\ LET req == [IdleUs EXCEPT !.op = "updateUser", !.id = id,
                                 !.firstName = body.firstName,
                                 !.lastName = body.lastName, !.email = body.email]
           e == UserUpdateError(users, id, body.firstName, body.lastName, body.email)
           hit == findByPk(users, id)
       IN IF e # ""
          THEN /\ us' = [us EXCEPT ![c] = [req EXCEPT !.pc = "done", !.resp = 500,
                                                      !.err = e]]
               /\ users' = users
          ELSE IF hit = {}
          THEN /\ us' = [us EXCEPT ![c] = [req EXCEPT !.pc = "done", !.resp = 404,
                                                      !.err = "User not found"]]
               /\ users' = users
          ELSE /\ us' = [us EXCEPT ![c] = [req EXCEPT !.pc = "reload"]]
               /\ users' = (users \ hit) \cup
                     {UserUpdated(row, body.firstName, body.lastName, body.email) :
                          row \in hit}
    /\ UNCHANGED <<profiles, posts, tags, postTags, seq, cp, up, pf, lk, tg, ls>>

\* const updatedUser = await User.findByPk(id); res.status(200).json(updatedUser)
updateUser_findByPk(c) ==
    /\ us[c].pc = "reload"
    /\ us' = [us EXCEPT ![c] = [@ EXCEPT !.pc = "done", !.resp = 200,
                                        !.body = findByPk(users, us[c].id)]]
    /\ UNCHANGED <<users, profiles, posts, tags, postTags, seq, cp, up, pf, lk,
                 served, tg, ls>>

-----------------------------------------------------------------------------
(* createProfile, updateProfile, deleteProfile *)

FreePf(r) == r.pc \in {"idle", "done"}

ArrivesPf(c) ==
    /\ served < MaxRequests
    /\ FreePf(pf[c])
    /\ \A d \in Clients : d < c => ~FreePf(pf[d])

\* Profile.findOne / update / destroy with where: { userId }.
findAllByUserId(rows, userId) == {r \in rows : r.userId = userId}

\* const user = await User.findByPk(userId); if (!user) return 404
createProfile_findByPk(c, body) ==
    /\ ArrivesPf(c)
    /\ served' = served + 1
    /\ LET req == [IdlePf EXCEPT !.op = "createProfile", !.userId = body.userId,
                                 !.bio = body.bio]
       IN pf' = [pf EXCEPT ![c] =
                 IF findByPk(users, body.userId) = {}
                 THEN [req EXCEPT !.pc = "done", !.resp = 404,
                                  !.err = "User not found"]
                 ELSE [req EXCEPT !.pc = "create"]]
    /\ UNCHANGED <<users, profiles, posts, tags, postTags, seq, cp, up, us, lk, tg, ls>>

\* const profile = await Profile.create({ bio, userId }): the row needs its
\* user to be stored still; nothing else is asked of it, and a bio that is
\* absent is stored as null. An INSERT the foreign key rejects has drawn its
\* id from the sequence already, and keeps it.
createProfile_create(c) ==
    /\ pf[c].pc = "create"
    /\ LET r == pf[c]
           row == [id |-> seq.profile, userId |-> r.userId,
                   bio |-> IF r.bio = Undef THEN Null ELSE r.bio]
       IN IF ~UserRefOk(users, r.userId)
          THEN /\ pf' = [pf EXCEPT ![c] = [@ EXCEPT !.pc = "done", !.resp = 400,
                                                   !.err = "foreign key constraint"]]
               /\ profiles' = profiles
               /\ seq' = [seq EXCEPT !.profile = @ + 1]
          ELSE /\ pf' = [pf EXCEPT ![c] = [@ EXCEPT !.pc = "done", !.resp = 201,
                                                   !.body = {row}]]
               /\ profiles' = profiles \cup {row}
               /\ seq' = [seq EXCEPT !.profile = @ + 1]
    /\ UNCHANGED <<users, posts, tags, postTags, cp, up, us, lk, served, tg, ls>>

\* const [updated] = await Profile.update({ bio }, { where: { userId } })
updateProfile_update(c, userId, bio) ==
    /\ ArrivesPf(c)
    /\ served' = served + 1
    /\ LET req == [IdlePf EXCEPT !.op = "updateProfile", !.userId = userId,
                                 !.bio = bio]
           hit == findAllByUserId(profiles, userId)
       IN IF hit = {}
          THEN /\ pf' = [pf EXCEPT ![c] = [req EXCEPT !.pc = "done", !.resp = 404,
                                                      !.err = "Profile not found"]]
               /\ profiles' = profiles
          ELSE /\ pf' = [pf EXCEPT ![c] = [req EXCEPT !.pc = "reload"]]
               /\ profiles' = (profiles \ hit) \cup
                     {[row EXCEPT !.bio = IF bio = Undef THEN @ ELSE bio] :
                          row \in hit}
    /\ UNCHANGED <<users, posts, tags, postTags, seq, cp, up, us, lk, tg, ls>>

\* const updatedProfile = await Profile.findOne({ where: { userId } })
updateProfile_findOne(c) ==
    /\ pf[c].pc = "reload"
    /\ LET hit == findAllByUserId(profiles, pf[c].userId)
       IN IF hit = {}
          THEN pf' = [pf EXCEPT ![c] = [@ EXCEPT !.pc = "done", !.resp = 200]]
          ELSE \E row \in hit :
                   pf' = [pf EXCEPT ![c] = [@ EXCEPT !.pc = "done", !.resp = 200,
                                                    !.body = {row}]]
    /\ UNCHANGED <<users, profiles, posts, tags, postTags, seq, cp, up, us, lk,
                 served, tg, ls>>

\* const deleted = await Profile.destroy({ where: { userId } })
deleteProfile(c, userId) ==
    /\ ArrivesPf(c)
    /\ served' = served + 1
    /\ LET req == [IdlePf EXCEPT !.op = "deleteProfile", !.userId = userId,
                                 !.pc = "done"]
           hit == findAllByUserId(profiles, userId)
       IN /\ pf' = [pf EXCEPT ![c] =
                    IF hit = {}
                    THEN [req EXCEPT !.resp = 404, !.err = "Profile not found"]
                    ELSE [req EXCEPT !.resp = 204]]
          /\ profiles' = profiles \ hit
    /\ UNCHANGED <<users, posts, tags, postTags, seq, cp, up, us, lk, tg, ls>>

-----------------------------------------------------------------------------
(* addTagToPost *)

FreeLk(r) == r.pc \in {"idle", "done"}

ArrivesLk(c) ==
    /\ served < MaxRequests
    /\ FreeLk(lk[c])
    /\ \A d \in Clients : d < c => ~FreeLk(lk[d])

\* const post = await Post.findByPk(req.params.postId)
addTagToPost_findPost(c, postId, tagId) ==
    /\ ArrivesLk(c)
    /\ served' = served + 1
    /\ lk' = [lk EXCEPT ![c] = [IdleLk EXCEPT !.op = "addTagToPost", !.pc = "findTag",
                                              !.postId = postId,
                                              !.tagId = tagId,
                                              !.post = findByPk(posts, postId)]]
    /\ UNCHANGED <<users, profiles, posts, tags, postTags, seq, cp, up, us, pf, tg, ls>>

\* A variant of addTagToPost_findTag that goes on to post.addTag without
\* looking at what the two lookups found.
addTagToPost_findTag_noCheck(c) ==
    /\ lk[c].pc = "findTag"
    /\ lk' = [lk EXCEPT ![c] = [@ EXCEPT !.pc = "current",
                                        !.tag = findByPk(tags, lk[c].tagId)]]
    /\ UNCHANGED <<users, profiles, posts, tags, postTags, seq, cp, up, us, pf,
                   served, tg, ls>>

\* const tag = await Tag.findByPk(tagId); if (!post || !tag) return 404
addTagToPost_findTag(c) ==
    /\ lk[c].pc = "findTag"
    /\ LET tag == findByPk(tags, lk[c].tagId)
       IN lk' = [lk EXCEPT ![c] =
                 IF lk[c].post = {} \/ tag = {}
                 THEN [@ EXCEPT !.pc = "done", !.tag = tag, !.resp = 404,
                                !.err = "Post or Tag not found"]
                 ELSE [@ EXCEPT !.pc = "current", !.tag = tag]]
    /\ UNCHANGED <<users, profiles, posts, tags, postTags, seq, cp, up, us, pf,
                 served, tg, ls>>

\* await post.addTag(tag), first half: the join rows the pair has already.
\* With one there is nothing to insert and the request is answered 200.
addTagToPost_findAll(c) ==
    /\ lk[c].pc = "current"
    /\ lk' = [lk EXCEPT ![c] =
              IF BagIn(<<lk[c].postId, lk[c].tagId>>, postTags)
              THEN [@ EXCEPT !.pc = "done", !.linked = TRUE, !.resp = 200]
              ELSE [@ EXCEPT !.pc = "insert"]]
    /\ UNCHANGED <<users, profiles, posts, tags, postTags, seq, cp, up, us, pf,
                 served, tg, ls>>

\* await post.addTag(tag), second half: the insert of the join row, outside
\* any transaction; 500 when the statement fails.
addTagToPost_bulkCreate(c) ==
    /\ lk[c].pc = "insert"
    /\ LET rows == <<(<<lk[c].postId, lk[c].tagId>>)>>
       IN IF ~PostTagUnique(postTags, rows)
          THEN /\ lk' = [lk EXCEPT ![c] = [@ EXCEPT !.pc = "done", !.resp = 500,
                                                   !.err = UniqueViolation]]
               /\ postTags' = postTags
          ELSE IF ~PostTagRefsOk(posts, tags, rows)
          THEN /\ lk' = [lk EXCEPT ![c] = [@ EXCEPT !.pc = "done", !.resp = 500,
                                                   !.err = "foreign key constraint"]]
               /\ postTags' = postTags
          ELSE /\ lk' = [lk EXCEPT ![c] = [@ EXCEPT !.pc = "done", !.resp = 200]]
               /\ postTags' = postTags (+) BagOfSeq(rows)
    /\ UNCHANGED <<users, profiles, posts, tags, seq, cp, up, us, pf, served, tg, ls>>

-----------------------------------------------------------------------------
(* removeTagFromPost *)

\* The join rows a DELETE of the pair (postId, tagId) leaves, for a variant
\* whose statement names the post only.
DestroyPair_allOfPost(links, postId, tagId) ==
    LET keep == {q \in BagToSet(links) : q[1] # postId}
    IN [q \in keep |-> links[q]]

\* through.destroy({ where: { postId, tagId } }): the join rows it leaves.
DestroyPair(links, postId, tagId) ==
    LET keep == {q \in BagToSet(links) : q # <<postId, tagId>>}
    IN [q \in keep |-> links[q]]

\* const post = await Post.findByPk(req.params.postId)
removeTagFromPost_findPost(c, postId, tagId) ==
    /\ ArrivesLk(c)
    /\ served' = served + 1
    /\ lk' = [lk EXCEPT ![c] = [IdleLk EXCEPT !.op = "removeTagFromPost",
                                              !.pc = "findTagR",
                                              !.postId = postId,
                                              !.tagId = tagId,
                                              !.post = findByPk(posts, postId)]]
    /\ UNCHANGED <<users, profiles, posts, tags, postTags, seq, cp, up, us, pf, tg, ls>>

\* const tag = await Tag.findByPk(tagId); if (!post || !tag) return 404
removeTagFromPost_findTag(c) ==
    /\ lk[c].pc = "findTagR"
    /\ LET tag == findByPk(tags, lk[c].tagId)
       IN lk' = [lk EXCEPT ![c] =
                 IF lk[c].post = {} \/ tag = {}
                 THEN [@ EXCEPT !.pc = "done", !.tag = tag, !.resp = 404,
                                !.err = "Post or Tag not found"]
                 ELSE [@ EXCEPT !.pc = "destroy", !.tag = tag]]
    /\ UNCHANGED <<users, profiles, posts, tags, postTags, seq, cp, up, us, pf,
                   served, tg, ls>>

\* await post.removeTag(tag): one DELETE of the pair's join rows, then 200
\* whether or not a row was deleted.
removeTagFromPost_destroy(c) ==
    /\ lk[c].pc = "destroy"
    /\ postTags' = DestroyPair(postTags, lk[c].postId, lk[c].tagId)
    /\ lk' = [lk EXCEPT ![c] =
              [@ EXCEPT !.pc = "done", !.resp = 200,
                        !.linked = BagIn(<<lk[c].postId, lk[c].tagId>>, postTags)]]
    /\ UNCHANGED <<users, profiles, posts, tags, seq, cp, up, us, pf, served, tg, ls>>

-----------------------------------------------------------------------------
(* updateTag, deleteTag *)

FreeTg(r) == r.pc \in {"idle", "done"}

ArrivesTg(c) ==
    /\ served < MaxRequests
    /\ FreeTg(tg[c])
    /\ \A d \in Clients : d < c => ~FreeTg(tg[d])

\* const [updated] = await Tag.update({ name }, { where: { id } }): 400 on
\* an error, 404 when no row matched.
updateTag_update(c, id, name) ==
    /\ ArrivesTg(c)
    /\ served' = served + 1
    /\ LET req == [IdleTg EXCEPT !.op = "updateTag", !.id = id, !.name = name]
           hit == findByPk(tags, id)
       IN IF name = Null
          THEN /\ tg' = [tg EXCEPT ![c] =
                         [req EXCEPT !.pc = "done", !.resp = 400,
                              !.err = "notNull Violation: Tag.name cannot be null"]]
               /\ tags' = tags
          ELSE IF hit = {}
          THEN /\ tg' = [tg EXCEPT ![c] = [req EXCEPT !.pc = "done", !.resp = 404,
                                                      !.err = "Tag not found"]]
               /\ tags' = tags
          ELSE /\ tg' = [tg EXCEPT ![c] = [req EXCEPT !.pc = "reload"]]
               /\ tags' = (tags \ hit) \cup
                     {[row EXCEPT !.name = IF name = Undef THEN @ ELSE name] :
                          row \in hit}
    /\ UNCHANGED <<users, profiles, posts, postTags, seq, cp, up, us, pf, lk, ls>>

\* const updatedTag = await Tag.findByPk(id); res.status(200).json(updatedTag)
updateTag_findByPk(c) ==
    /\ tg[c].pc = "reload"
    /\ tg' = [tg EXCEPT ![c] = [@ EXCEPT !.pc = "done", !.resp = 200,
                                        !.body = findByPk(tags, tg[c].id)]]
    /\ UNCHANGED <<users, profiles, posts, tags, postTags, seq, cp, up, us, pf, lk,
                   served, ls>>

\* const tag = await Tag.create({ name }): 201 with the row, or 400 when the
\* name is null or absent; allowNull: false asks nothing else of it.
createTag(c, name) ==
    /\ ArrivesTg(c)
    /\ served' = served + 1
    /\ LET req == [IdleTg EXCEPT !.op = "createTag", !.pc = "done", !.name = name]
           row == [id |-> seq.tag, name |-> name]
       IN IF ~NotNullOk(name)
          THEN /\ tg' = [tg EXCEPT ![c] =
                         [req EXCEPT !.resp = 400,
                              !.err = "notNull Violation: Tag.name cannot be null"]]
               /\ UNCHANGED <<tags, seq>>
          ELSE /\ tg' = [tg EXCEPT ![c] = [req EXCEPT !.resp = 201, !.body = {row}]]
               /\ tags' = tags \cup {row}
               /\ seq' = [seq EXCEPT !.tag = @ + 1]
    /\ UNCHANGED <<users, profiles, posts, postTags, cp, up, us, pf, lk, ls>>

\* The join rows left when a tag is deleted: the join table's foreign key
\* on tagId is ON DELETE CASCADE.
CascadeTag(links, tagId) ==
    LET keep == {q \in BagToSet(links) : q[2] # tagId}
    IN [q \in keep |-> links[q]]

\* const deleted = await Tag.destroy({ where: { id } }): 204, or 404 when no
\* row matched.
deleteTag(c, id) ==
    /\ ArrivesTg(c)
    /\ ~TagKeyLocked(id)
    /\ served' = served + 1
    /\ LET req == [IdleTg EXCEPT !.op = "deleteTag", !.id = id, !.pc = "done"]
           hit == findByPk(tags, id)
       IN /\ tg' = [tg EXCEPT ![c] =
                    IF hit = {}
                    THEN [req EXCEPT !.resp = 404, !.err = "Tag not found"]
                    ELSE [req EXCEPT !.resp = 204]]
          /\ tags' = tags \ hit
          /\ postTags' = IF hit = {} THEN postTags ELSE CascadeTag(postTags, id)
    /\ UNCHANGED <<users, profiles, posts, seq, cp, up, us, pf, lk, ls>>

-----------------------------------------------------------------------------
(* deleteUser, deletePost *)

\* The join rows left when posts are deleted: the join table's foreign key
\* on postId is ON DELETE CASCADE.
\* A variant of CascadePosts without ON DELETE CASCADE on the postId key.
CascadePosts_noCascade(links, postIds) == links

CascadePosts(links, postIds) ==
    LET keep == {q \in BagToSet(links) : q[1] \notin postIds}
    IN [q \in keep |-> links[q]]

\* const deleted = await User.destroy({ where: { id } }): 204, or 404 when no
\* row matched. The profiles and the posts of the user go with the row, their
\* userId being a non-null foreign key of hasOne / hasMany. The statement
\* waits while an open transaction holds the row.
deleteUser(c, id) ==
    /\ ArrivesUs(c)
    /\ ~UserKeyLocked(id)
    /\ served' = served + 1
    /\ LET req == [IdleUs EXCEPT !.op = "deleteUser", !.id = id, !.pc = "done"]
           hit == findByPk(users, id)
           gone == {p \in posts : p.userId = id}
       IN /\ us' = [us EXCEPT ![c] =
                    IF hit = {}
                    THEN [req EXCEPT !.resp = 404, !.err = "User not found"]
                    ELSE [req EXCEPT !.resp = 204]]
          /\ users' = users \ hit
          /\ profiles' = IF hit = {} THEN profiles
                         ELSE profiles \ findAllByUserId(profiles, id)
          /\ posts' = IF hit = {} THEN posts ELSE posts \ gone
          /\ postTags' = IF hit = {} THEN postTags
                         ELSE CascadePosts(postTags, {p.id : p \in gone})
    /\ UNCHANGED <<tags, seq, cp, up, pf, lk, tg, ls>>

\* const deleted = await Post.destroy({ where: { id } }): 204, or 404 when no
\* row matched.
deletePost(c, id) ==
    /\ ArrivesUp(c)
    /\ served' = served + 1
    /\ LET req == [IdleUp EXCEPT !.op = "deletePost", !.id = id, !.pc = "done"]
           hit == findByPk(posts, id)
       IN /\ up' = [up EXCEPT ![c] =
                    IF hit = {}
                    THEN [req EXCEPT !.resp = 404, !.err = "Post not found"]
                    ELSE [req EXCEPT !.resp = 204]]
          /\ posts' = posts \ hit
          /\ postTags' = IF hit = {} THEN postTags
                         ELSE CascadePosts(postTags, {id})
    /\ UNCHANGED <<users, profiles, tags, seq, cp, us, pf, lk, tg, ls>>

-----------------------------------------------------------------------------
(* getAllPosts *)

\* const { page = 1, limit = 10, status = 'active' } = req.query. A query
\* without page or limit is the query with page 1 or limit 10.
QueryDefault(v, d) == IF v = Undef THEN d ELSE v

\* The scopes of Post, and what Post.scope(name) makes of a name: the empty
\* name and 'defaultScope' give the model with no filter, any other name that
\* is not a scope of the model throws.
PostScopes == {"active", "archived", "draft"}
Unscoped(name) == Falsy(name) \/ name = "defaultScope"
ScopeExists(name) == name \in PostScopes \/ Unscoped(name)
scope(rows, name) ==
    IF Unscoped(name) THEN rows ELSE {p \in rows : p.status = name}

\* The tags joined to a post, as include: [Tag] loads them.
TagsOf(tagRows, links, postId) ==
    {t \in tagRows : BagIn(<<postId, t.id>>, links)}

\* const offset = (page - 1) * limit
Offset_pageTimesLimit(page, limit) == page * limit

Offset(page, limit) == (page - 1) * limit

CeilDiv(n, d) == (n + d - 1) \div d

\* createdAt: the time on the clock when Post.create built the row.
createdAt(p) == p.createdAt

\* order: [['createdAt', 'DESC']]: the sequences the rows can be returned
\* in. The order names no other column, so rows of one creation time come
\* in whatever order the database produces for the query at hand.
RECURSIVE OrderByCreatedAtDesc(_)
OrderByCreatedAtDesc(rows) ==
    IF rows = {} THEN {<<>>}
    ELSE LET tops == {p \in rows : \A q \in rows : createdAt(q) <= createdAt(p)}
         IN UNION {{<<top>> \o rest : rest \in OrderByCreatedAtDesc(rows \ {top})} :
                       top \in tops}

\* The count query of findAndCountAll: COUNT("Post"."id") over the posts of
\* the scope joined with their user and their tags, one joined row per tag
\* of a post and one for a post without tags.
RECURSIVE JoinedCount(_, _, _)
JoinedCount(rows, tagRows, links) ==
    IF rows = {} THEN 0
    ELSE LET p == CHOOSE q \in rows : TRUE
             k == Cardinality(TagsOf(tagRows, links, p.id))
         IN (IF k = 0 THEN 1 ELSE k) + JoinedCount(rows \ {p}, tagRows, links)

\* The row query of findAndCountAll: of the posts of the scope as ordered,
\* limit rows from offset, each with its user and its tags.
PageRows(all, userRows, tagRows, links, offset, limit) ==
    LET last == IF offset + limit < Len(all) THEN offset + limit ELSE Len(all)
        page == SubSeq(all, offset + 1, last)
    IN [i \in DOMAIN page |->
           [post |-> page[i], User |-> findByPk(userRows, page[i].userId),
            Tags |-> TagsOf(tagRows, links, page[i].id)]]

\* res.status(200).json({ posts: posts.rows, totalPages, currentPage });
\* findAndCountAll hands over no rows when the count is 0.
getAllPosts_respond(r) ==
    [r EXCEPT !.pc = "done", !.resp = 200,
              !.rows = IF r.count = 0 THEN <<>> ELSE r.rows,
              !.totalPages = CeilDiv(r.count, r.limit),
              !.currentPage = r.page]

\* The request arrives; Post.scope(status) throws for an unknown name and
\* the catch answers 500.
getAllPosts_scope(query) ==
    /\ ls.pc \in {"idle", "done"}
    /\ LET req == [IdleLs EXCEPT !.page = query.page, !.limit = query.limit,
                                 !.status = QueryDefault(query.status, "active")]
       IN ls' = IF ScopeExists(req.status)
                THEN [req EXCEPT !.pc = "query"]
                ELSE [req EXCEPT !.pc = "done", !.resp = 500,
                                 !.err = "Invalid scope called."]
    /\ UNCHANGED <<users, profiles, posts, tags, postTags, seq, cp, up, us, pf, lk,
                   tg, served>>

\* findAndCountAll runs its count query and its row query side by side; the
\* request is answered when both have returned.
getAllPosts_count ==
    /\ ls.pc = "query"
    /\ ls.count = -1
    /\ LET r == [ls EXCEPT !.count =
                    JoinedCount(scope(posts, ls.status), tags, postTags)]
       IN ls' = IF r.found THEN getAllPosts_respond(r) ELSE r
    /\ UNCHANGED <<users, profiles, posts, tags, postTags, seq, cp, up, us, pf, lk,
                   tg, served>>

getAllPosts_findAll ==
    /\ ls.pc = "query"
    /\ ~ls.found
    /\ \E all \in OrderByCreatedAtDesc(scope(posts, ls.status)) :
           LET r == [ls EXCEPT !.found = TRUE,
                               !.rows = PageRows(all, users, tags, postTags,
                                                 Offset(ls.page, ls.limit),
                                                 ls.limit)]
           IN ls' = IF r.count >= 0 THEN getAllPosts_respond(r) ELSE r
    /\ UNCHANGED <<users, profiles, posts, tags, postTags, seq, cp, up, us, pf, lk,
                   tg, served>>

\* The clock Sequelize reads for createdAt moves on between two statements,
\* or does not: two rows built within one tick carry the same createdAt.
ClockTick ==
    /\ seq.now < MaxNow
    /\ seq' = [seq EXCEPT !.now = @ + 1]
    /\ UNCHANGED <<users, profiles, posts, tags, postTags, cp, up, us, pf, lk,
                   tg, ls, served>>

-----------------------------------------------------------------------------
(* Readers *)

\* getPostById: Post.findByPk(id, { include: [User, Tag] }) on the
\* committed tables: the status, the row and the Tags joined to it.
getPostById(id) ==
    LET hit == findByPk(posts, id)
    IN IF hit = {}
       THEN [status |-> 404, post |-> {}, Tags |-> {}]
       ELSE [status |-> 200, post |-> hit,
             Tags |-> {t \in tags : BagIn(<<id, t.id>>, postTags)}]

\* A variant of getUserById whose includes are required, so that a user
\* without a profile or without posts is not found.
getUserById_required(id) ==
    LET hit == {u \in users : /\ u.id = id
                              /\ findAllByUserId(profiles, id) # {}
                              /\ findAllByUserId(posts, id) # {}}
    IN IF hit = {}
       THEN [status |-> 404, user |-> {}, Profile |-> {}, Posts |-> {}]
       ELSE [status |-> 200, user |-> hit,
             Profile |-> findAllByUserId(profiles, id),
             Posts |-> findAllByUserId(posts, id)]

\* getUserById: User.findByPk(id, { include: [Profile, Post] }) on the
\* committed tables: the status, the row, the profile rows of the user (the
\* answer carries one of them, or null when there is none) and its posts.
getUserById(id) ==
    LET hit == findByPk(users, id)
    IN IF hit = {}
       THEN [status |-> 404, user |-> {}, Profile |-> {}, Posts |-> {}]
       ELSE [status |-> 200, user |-> hit,
             Profile |-> findAllByUserId(profiles, id),
             Posts |-> findAllByUserId(posts, id)]

-----------------------------------------------------------------------------
(* Specification of concurrent createPost requests *)

\* Request bodies of createPost: a well-formed post with each of the tag
\* lists below, and one body for each way the request can be refused before
\* the tags. Tag "Technology" is stored, "Lifestyle" is not, null is no name.
TagListArgs ==
    {<<>>, <<"Technology", "Lifestyle">>, <<"Technology", "Technology">>,
     <<"Lifestyle", "Lifestyle">>, <<"Lifestyle", Null>>}
GoodBody == [userId |-> 1, title |-> "Hello world", content |-> "body",
             status |-> Undef, tags |-> <<>>]
PostBodies ==
    {[GoodBody EXCEPT !.tags = l] : l \in TagListArgs}
    \cup {[GoodBody EXCEPT !.userId = 2, !.tags = <<"Lifestyle">>],
          [GoodBody EXCEPT !.title = Null, !.tags = <<"Lifestyle">>]}

NextPost ==
    \/ \E c \in Clients, body \in PostBodies : createPost_begin(c, body)
    \/ \E c \in Clients : createPost_findByPk(c)
    \/ \E c \in Clients : createPost_create(c)
    \/ \E c \in Clients, storageErr \in BOOLEAN : createPost_afterCreate(c, storageErr)
    \/ \E c \in Clients : \E i \in DOMAIN cp[c].sub : createPost_findOrCreate_find(c, i)
    \/ \E c \in Clients : \E i \in DOMAIN cp[c].sub : createPost_findOrCreate_create(c, i)
    \/ \E c \in Clients : \E i \in DOMAIN cp[c].sub : createPost_findOrCreate_commit(c, i)
    \/ \E c \in Clients : createPost_addTags(c)
    \/ \E c \in Clients : createPost_commit(c)
    \/ \E c \in Clients : createPost_rollback(c)

SpecPost == Init /\ [][NextPost]_vars

-----------------------------------------------------------------------------
(* Specification of createPost requests whose COMMIT may fail *)

NextTxn ==
    \/ NextPost
    \/ \E c \in Clients : createPost_commit_fails(c)

SpecTxn == Init /\ [][NextTxn]_vars

-----------------------------------------------------------------------------
(* Specification of createPost and updatePost requests *)

\* Request bodies of createPost with every kind of status, and one with tags.
CreateStatusArgs == {Undef, Null, "", "active", "draft", "archived", "bogus"}
ContentBodies ==
    {[GoodBody EXCEPT !.status = st] : st \in CreateStatusArgs}
    \cup {[GoodBody EXCEPT !.tags = <<"Technology", "Lifestyle">>]}

\* Request bodies of updatePost: titles of every length up to five, absent
\* and null ones, and every kind of status. Post 9 is never stored.
UpdateTitleArgs == {Undef, Null, "", "a", "ab", "abc", "abcd", "abcde"}
UpdateContentArgs == {Undef, Null, "new body"}
UpdateStatusArgs == {Undef, Null, "archived", "bogus"}
UpdateBodies ==
    [title : UpdateTitleArgs, content : UpdateContentArgs, status : UpdateStatusArgs]
PostIdArgs == {1, 2, 9}

NextContent ==
    \/ \E c \in Clients, body \in ContentBodies : createPost_begin(c, body)
    \/ \E c \in Clients : createPost_findByPk(c)
    \/ \E c \in Clients : createPost_create(c)
    \/ \E c \in Clients, storageErr \in BOOLEAN : createPost_afterCreate(c, storageErr)
    \/ \E c \in Clients : \E i \in DOMAIN cp[c].sub : createPost_findOrCreate_find(c, i)
    \/ \E c \in Clients : \E i \in DOMAIN cp[c].sub : createPost_findOrCreate_create(c, i)
    \/ \E c \in Clients : \E i \in DOMAIN cp[c].sub : createPost_findOrCreate_commit(c, i)
    \/ \E c \in Clients : createPost_addTags(c)
    \/ \E c \in Clients : createPost_commit(c)
    \/ \E c \in Clients : createPost_rollback(c)
    \/ \E c \in Clients, id \in PostIdArgs, body \in UpdateBodies :
           updatePost_update(c, id, body)
    \/ \E c \in Clients : updatePost_findByPk(c)

SpecContent == Init /\ [][NextContent]_vars

-----------------------------------------------------------------------------
(* Specification of createPost beside well-formed updatePost requests *)

FrameBodies ==
    [title : {Undef, "abcde"}, content : {Undef, "new body"},
     status : {Undef, "archived"}]

NextFrame ==
    \/ \E c \in Clients, body \in ContentBodies : createPost_begin(c, body)
    \/ \E c \in Clients : createPost_findByPk(c)
    \/ \E c \in Clients : createPost_create(c)
    \/ \E c \in Clients, storageErr \in BOOLEAN : createPost_afterCreate(c, storageErr)
    \/ \E c \in Clients : \E i \in DOMAIN cp[c].sub : createPost_findOrCreate_find(c, i)
    \/ \E c \in Clients : \E i \in DOMAIN cp[c].sub : createPost_findOrCreate_create(c, i)
    \/ \E c \in Clients : \E i \in DOMAIN cp[c].sub : createPost_findOrCreate_commit(c, i)
    \/ \E c \in Clients : createPost_addTags(c)
    \/ \E c \in Clients : createPost_commit(c)
    \/ \E c \in Clients : createPost_rollback(c)
    \/ \E c \in Clients, id \in {1, 2}, body \in FrameBodies :
           updatePost_update(c, id, body)
    \/ \E c \in Clients : updatePost_findByPk(c)

SpecFrame == Init /\ [][NextFrame]_vars

-----------------------------------------------------------------------------
(* Specification of createUser and updateUser requests *)

\* Request bodies: the seed's email, a new one, a malformed one and none.
UserBodies ==
    [firstName : {"Bob", Undef}, lastName : {"Smith"},
     email : {"alice@example.com", "bob@example.com", "bob.example.com", Undef}]
UserUpdateBodies ==
    [firstName : {Undef, Null, "Eve"}, lastName : {Undef},
     email : {Undef, Null, "alice@example.com", "bob@example.com", "bob.example.com"}]
UserIdArgs == {1, 2, 9}

NextAccount ==
    \/ \E c \in Clients, body \in UserBodies : createUser(c, body)
    \/ \E c \in Clients, id \in UserIdArgs, body \in UserUpdateBodies :
           updateUser_update(c, id, body)
    \/ \E c \in Clients : updateUser_findByPk(c)

SpecAccount == Init /\ [][NextAccount]_vars

-----------------------------------------------------------------------------
(* Specification of profile requests *)

ProfileBodies == [userId : {1, 2}, bio : {"Alice is a web developer", Undef}]
BioArgs == {"Alice writes", Null, Undef}

NextProfile ==
    \/ \E c \in Clients, body \in ProfileBodies : createProfile_findByPk(c, body)
    \/ \E c \in Clients : createProfile_create(c)
    \/ \E c \in Clients, userId \in {1, 2}, bio \in BioArgs :
           updateProfile_update(c, userId, bio)
    \/ \E c \in Clients : updateProfile_findOne(c)
    \/ \E c \in Clients, userId \in {1, 2} : deleteProfile(c, userId)

SpecProfile == Init /\ [][NextProfile]_vars

-----------------------------------------------------------------------------
(* Specification of createProfile and createPost beside deleteUser *)

OwnerPostBodies ==
    {[GoodBody EXCEPT !.tags = l] : l \in {<<>>, <<"Technology", "Lifestyle">>}}

NextOwner ==
    \/ \E c \in Clients, body \in ProfileBodies : createProfile_findByPk(c, body)
    \/ \E c \in Clients : createProfile_create(c)
    \/ \E c \in Clients, body \in OwnerPostBodies : createPost_begin(c, body)
    \/ \E c \in Clients : createPost_findByPk(c)
    \/ \E c \in Clients : createPost_create(c)
    \/ \E c \in Clients, storageErr \in BOOLEAN : createPost_afterCreate(c, storageErr)
    \/ \E c \in Clients : \E i \in DOMAIN cp[c].sub : createPost_findOrCreate_find(c, i)
    \/ \E c \in Clients : \E i \in DOMAIN cp[c].sub : createPost_findOrCreate_create(c, i)
    \/ \E c \in Clients : \E i \in DOMAIN cp[c].sub : createPost_findOrCreate_commit(c, i)
    \/ \E c \in Clients : createPost_addTags(c)
    \/ \E c \in Clients : createPost_commit(c)
    \/ \E c \in Clients : createPost_rollback(c)
    \/ \E c \in Clients, id \in {1, 2} : deleteUser(c, id)

SpecOwner == Init /\ [][NextOwner]_vars

-----------------------------------------------------------------------------
(* Specification of create and update requests with empty values *)

FieldUserBodies ==
    [firstName : {"Bob", "", Undef}, lastName : {"Smith", ""},
     email : {"bob@example.com", ""}]
FieldUserUpdateBodies ==
    [firstName : {Undef, "", "Eve"}, lastName : {Undef}, email : {Undef, ""}]
FieldPostBodies ==
    {[GoodBody EXCEPT !.title = t, !.content = b, !.tags = l] :
         t \in {"Hello world", "", Undef},
         b \in {"Alice discusses web development tips.", ""},
         l \in {<<>>, <<"Technology", "">>}}
FieldTagNames == {Undef, Null, "", "Lifestyle"}

NextFields ==
    \/ \E c \in Clients, body \in FieldUserBodies : createUser(c, body)
    \/ \E c \in Clients, body \in FieldUserUpdateBodies :
           updateUser_update(c, 1, body)
    \/ \E c \in Clients : updateUser_findByPk(c)
    \/ \E c \in Clients, name \in FieldTagNames : createTag(c, name)
    \/ \E c \in Clients, name \in FieldTagNames : updateTag_update(c, 1, name)
    \/ \E c \in Clients : updateTag_findByPk(c)
    \/ \E c \in Clients, body \in FieldPostBodies : createPost_begin(c, body)
    \/ \E c \in Clients : createPost_findByPk(c)
    \/ \E c \in Clients : createPost_create(c)
    \/ \E c \in Clients, storageErr \in BOOLEAN : createPost_afterCreate(c, storageErr)
    \/ \E c \in Clients : \E i \in DOMAIN cp[c].sub : createPost_findOrCreate_find(c, i)
    \/ \E c \in Clients : \E i \in DOMAIN cp[c].sub : createPost_findOrCreate_create(c, i)
    \/ \E c \in Clients : \E i \in DOMAIN cp[c].sub : createPost_findOrCreate_commit(c, i)
    \/ \E c \in Clients : createPost_addTags(c)
    \/ \E c \in Clients : createPost_commit(c)
    \/ \E c \in Clients : createPost_rollback(c)

SpecFields == Init /\ [][NextFields]_vars

-----------------------------------------------------------------------------
(* Specification of createPost and addTagToPost requests *)

LinkBodies ==
    {[GoodBody EXCEPT !.tags = l] :
         l \in {<<"Technology", "Lifestyle">>, <<"Technology", "Technology">>}}
TagIdArgs == {1, 2, 9}

NextLink ==
    \/ \E c \in Clients, body \in LinkBodies : createPost_begin(c, body)
    \/ \E c \in Clients : createPost_findByPk(c)
    \/ \E c \in Clients : createPost_create(c)
    \/ \E c \in Clients, storageErr \in BOOLEAN : createPost_afterCreate(c, storageErr)
    \/ \E c \in Clients : \E i \in DOMAIN cp[c].sub : createPost_findOrCreate_find(c, i)
    \/ \E c \in Clients : \E i \in DOMAIN cp[c].sub : createPost_findOrCreate_create(c, i)
    \/ \E c \in Clients : \E i \in DOMAIN cp[c].sub : createPost_findOrCreate_commit(c, i)
    \/ \E c \in Clients : createPost_addTags(c)
    \/ \E c \in Clients : createPost_commit(c)
    \/ \E c \in Clients : createPost_rollback(c)
    \/ \E c \in Clients, postId \in PostIdArgs, tagId \in TagIdArgs :
           addTagToPost_findPost(c, postId, tagId)
    \/ \E c \in Clients : addTagToPost_findTag(c)
    \/ \E c \in Clients : addTagToPost_findAll(c)
    \/ \E c \in Clients : addTagToPost_bulkCreate(c)

SpecLink == Init /\ [][NextLink]_vars

-----------------------------------------------------------------------------
(* Specification of createPost and addTagToPost beside deletePost, deleteTag *)

NextRefs ==
    \/ NextLink
    \/ \E c \in Clients, id \in {1, 2} : deletePost(c, id)
    \/ \E c \in Clients, id \in {1, 2} : deleteTag(c, id)

SpecRefs == Init /\ [][NextRefs]_vars

-----------------------------------------------------------------------------
(* Specification of getAllPosts requests on the seeded tables *)

PageArgs == {1, 2, 3}
LimitArgs == {1, 2, 3, 10}
ScopeArgs == {Undef, "active", "draft", "archived", "", "defaultScope", "published"}
ListQueries == [page : PageArgs, limit : LimitArgs, status : ScopeArgs]

NextList ==
    \/ \E query \in ListQueries : getAllPosts_scope(query)
    \/ getAllPosts_count
    \/ getAllPosts_findAll

SpecList == InitSeeded /\ [][NextList]_vars

-----------------------------------------------------------------------------
(* Specification of getAllPosts requests beside createPost requests *)

PageLimitArgs == {1, 2}
PageQueries == [page : PageArgs, limit : PageLimitArgs, status : {Undef, "draft"}]
PagePostBodies ==
    {[GoodBody EXCEPT !.status = st, !.tags = l] :
         st \in {"active", "draft"}, l \in {<<>>, <<"Technology", "Lifestyle">>}}

NextPages ==
    \/ \E c \in Clients, body \in PagePostBodies : createPost_begin(c, body)
    \/ \E c \in Clients : createPost_findByPk(c)
    \/ \E c \in Clients : createPost_create(c)
    \/ \E c \in Clients, storageErr \in BOOLEAN : createPost_afterCreate(c, storageErr)
    \/ \E c \in Clients : \E i \in DOMAIN cp[c].sub : createPost_findOrCreate_find(c, i)
    \/ \E c \in Clients : \E i \in DOMAIN cp[c].sub : createPost_findOrCreate_create(c, i)
    \/ \E c \in Clients : \E i \in DOMAIN cp[c].sub : createPost_findOrCreate_commit(c, i)
    \/ \E c \in Clients : createPost_addTags(c)
    \/ \E c \in Clients : createPost_commit(c)
    \/ \E c \in Clients : createPost_rollback(c)
    \/ ClockTick
    \/ \E query \in PageQueries : getAllPosts_scope(query)
    \/ getAllPosts_count
    \/ getAllPosts_findAll

SpecPages == Init /\ [][NextPages]_vars

-----------------------------------------------------------------------------
(* Specification of tag and join requests on the seeded tables *)

NextTagging ==
    \/ \E c \in Clients, postId \in PostIdArgs, tagId \in TagIdArgs :
           addTagToPost_findPost(c, postId, tagId)
    \/ \E c \in Clients : addTagToPost_findTag(c)
    \/ \E c \in Clients : addTagToPost_findAll(c)
    \/ \E c \in Clients : addTagToPost_bulkCreate(c)
    \/ \E c \in Clients, postId \in PostIdArgs, tagId \in TagIdArgs :
           removeTagFromPost_findPost(c, postId, tagId)
    \/ \E c \in Clients : removeTagFromPost_findTag(c)
    \/ \E c \in Clients : removeTagFromPost_destroy(c)
    \/ \E c \in Clients, id \in TagIdArgs : deleteTag(c, id)

SpecTagging == InitSeeded /\ [][NextTagging]_vars

-----------------------------------------------------------------------------
(* Specification of update and delete requests on the seeded tables *)

CrudIdArgs == {1, 9}
CrudUserBodies == {b \in UserUpdateBodies : b.firstName = Undef}
CrudPostBodies ==
    {[title |-> t, content |-> Undef, status |-> Undef] :
         t \in {Undef, "abc", "Hello again"}}
TagNameArgs == {Undef, Null, "Tech"}

NextCrud ==
    \/ \E c \in Clients, id \in CrudIdArgs, body \in CrudUserBodies :
           updateUser_update(c, id, body)
    \/ \E c \in Clients : updateUser_findByPk(c)
    \/ \E c \in Clients, id \in CrudIdArgs : deleteUser(c, id)
    \/ \E c \in Clients, id \in CrudIdArgs, body \in CrudPostBodies :
           updatePost_update(c, id, body)
    \/ \E c \in Clients : updatePost_findByPk(c)
    \/ \E c \in Clients, id \in CrudIdArgs : deletePost(c, id)
    \/ \E c \in Clients, id \in CrudIdArgs, name \in TagNameArgs :
           updateTag_update(c, id, name)
    \/ \E c \in Clients : updateTag_findByPk(c)
    \/ \E c \in Clients, id \in CrudIdArgs : deleteTag(c, id)
    \/ \E c \in Clients, userId \in CrudIdArgs, bio \in BioArgs :
           updateProfile_update(c, userId, bio)
    \/ \E c \in Clients : updateProfile_findOne(c)
    \/ \E c \in Clients, userId \in CrudIdArgs : deleteProfile(c, userId)

SpecCrud == InitSeeded /\ [][NextCrud]_vars

-----------------------------------------------------------------------------
(* Properties of createPost, checked under SpecPost *)

\* The join rows of a post in the committed table.
LinksOf(postId) == {p \in BagToSet(postTags) : p[1] = postId}

\* A request that has been answered.
Answered(r) == r.pc = "done"

\* C1: createPost is all-or-nothing on failure: once a failed call has
\* returned, the store holds no Post row, no Tag row and no PostTag row that
\* the call introduced.
C1_AllOrNothing ==
    \A c \in Clients :
        Answered(cp[c]) /\ cp[c].resp # 201 =>
            /\ cp[c].postId # 0 => findByPk(posts, cp[c].postId) = {}
            /\ cp[c].postId # 0 => LinksOf(cp[c].postId) = {}
            /\ \A t \in tags : t.id \notin cp[c].made

\* C2: partial tag attachment is never observable: in every state, the post
\* of a createPost call is either absent from what getPostById reads, with
\* none of its join rows stored, or present and joined to the Tag that was
\* found or created for each of the requested names.
C2_NoPartialTags ==
    \A c \in Clients :
        cp[c].postId # 0 =>
            LET got == getPostById(cp[c].postId)
            IN IF got.status = 404
               THEN LinksOf(cp[c].postId) = {}
               ELSE \A i \in DOMAIN cp[c].tags :
                        /\ i \in DOMAIN cp[c].sub
                        /\ \E t \in got.Tags : /\ t.name = cp[c].tags[i]
                                                /\ t.id = cp[c].sub[i].id

\* C2 witness: one call's post is readable with both of its tags while the
\* other call has written its post and join rows and is not yet readable.
C2_Witness ==
    \E c, d \in Clients :
        /\ Answered(cp[c]) /\ cp[c].resp = 201
        /\ Cardinality(getPostById(cp[c].postId).Tags) = 2
        /\ cp[d].pc = "commit" /\ Len(cp[d].links) = 2
        /\ getPostById(cp[d].postId).status = 404

\* C3: a failure of the Post afterCreate hook does not roll back the insert
\* and the call still reports success.
C3_HookFailureIsolated ==
    \A c \in Clients :
        Answered(cp[c]) /\ cp[c].hookErr =>
            /\ cp[c].resp = 201
            /\ findByPk(posts, cp[c].postId) # {}

\* C8: find-or-create is atomic per name: after the calls that named a tag
\* have succeeded, exactly one Tag row has that name and each post is joined
\* to that row.
C8_OneTagPerName ==
    \A c \in Clients :
        Answered(cp[c]) /\ cp[c].resp = 201 =>
            \A n \in Range(cp[c].tags) :
                /\ Cardinality(findAllByName(tags, n)) = 1
                /\ \A t \in findAllByName(tags, n) :
                       BagIn(<<cp[c].postId, t.id>>, postTags)

\* C10: round trip: after createPost succeeds with tags T, getPostById on
\* the returned id yields the post with Tags whose names are exactly T.
C10_RoundTrip ==
    \A c \in Clients :
        Answered(cp[c]) /\ cp[c].resp = 201 =>
            LET got == getPostById(cp[c].postId)
            IN /\ got.status = 200
               /\ {t.name : t \in got.Tags} = Range(cp[c].tags)

\* C10 witness: a call with tags ["Technology", "Lifestyle"] has succeeded,
\* "Technology" found among the stored tags and "Lifestyle" created by the call.
C10_Witness ==
    \E c \in Clients :
        /\ Answered(cp[c]) /\ cp[c].resp = 201
        /\ cp[c].tags = <<"Technology", "Lifestyle">>
        /\ cp[c].sub[1].st = "found" /\ cp[c].sub[2].st = "created"

-----------------------------------------------------------------------------
(* Properties of the Posts table, checked under SpecContent *)

\* C6: the status of every Post row is one of active, draft, archived,
\* whatever status createPost and updatePost were given.
C6_StatusInEnum == \A p \in posts : p.status \in StatusEnum

\* A step in which client c's updatePost request is taken up.
UpdateStep(c) == up'[c] # up[c] /\ up[c].pc # "reload"

\* C7: updatePost of a stored post with a title of fewer than 5 characters,
\* of every length from 0 to 4, is answered 400 and leaves the title, content
\* and status of the row, with the rest of the Posts table, as they were.
C7_ShortTitleRejected ==
    [][\A c \in Clients :
          /\ UpdateStep(c)
          /\ up'[c].title \notin {Null, Undef}
          /\ Len(up'[c].title) < 5
          /\ findByPk(posts, up'[c].id) # {}
          => up'[c].resp = 400 /\ posts' = posts]_vars

\* The accounts other than the addressed one that hold the email.
HeldByOther(rows, id, email) == {u \in rows : u.email = email /\ u.id # id}

\* A createUser request or the update statement of an updateUser request.
UserStep(c) == us'[c] # us[c] /\ us[c].pc # "reload"

\* The errors of Sequelize's ValidationError family, as the handlers report
\* them.
ValidationErrors ==
    {UniqueViolation,
     "notNull Violation: User.firstName cannot be null",
     "notNull Violation: User.lastName cannot be null",
     "notNull Violation: User.email cannot be null",
     "Validation error: Validation isEmail on email failed"}

\* C4: no two accounts ever hold the same email, and a createUser or updateUser
\* request whose email is held by another account (the addressed account being
\* stored, for an update) is answered with a validation error and leaves the
\* users table as it was, whatever the interleaving of the requests.
C4_UniqueEmail ==
    [][/\ \A u, v \in users' : u.email = v.email => u.id = v.id
       /\ \A c \in Clients :
             (/\ UserStep(c)
              /\ HeldByOther(users, us'[c].id, us'[c].email) # {}
              /\ (us'[c].op = "updateUser" => findByPk(users, us'[c].id) # {}))
             => /\ us'[c].resp \in {400, 500}
                /\ us'[c].err \in ValidationErrors
                /\ users' = users]_vars

\* C4 witness: an account was created with a new email and an updateUser
\* request that would give the seeded account that email was rejected for
\* the unique constraint.
C4_Witness ==
    \E d \in Clients :
        /\ us[d].op = "updateUser" /\ us[d].pc = "done"
        /\ us[d].err = UniqueViolation
        /\ us[d].firstName # Null
        /\ findByPk(users, us[d].id) # {}
        /\ \E u \in users : u.email = us[d].email /\ u.id # us[d].id /\ u.id > 1

\* C5: every account has at most one profile row.
C5_OneProfilePerUser ==
    \A u \in users : Cardinality(findAllByUserId(profiles, u.id)) <= 1

\* C9: the join table holds at most one row per (postId, tagId) pair, and an
\* addTagToPost request that finds its pair linked already is answered 200.
C9_OneRowPerPair ==
    /\ \A pair \in BagToSet(postTags) : CopiesIn(pair, postTags) = 1
    /\ \A c \in Clients :
           lk[c].pc = "done" /\ lk[c].linked => lk[c].resp = 200 /\ lk[c].err = ""

\* C9 witness: two addTagToPost requests for the same pair are answered, one
\* having inserted the row and the other having found it.
C9_Witness ==
    \E c, d \in Clients :
        /\ c # d
        /\ lk[c].pc = "done" /\ lk[d].pc = "done"
        /\ lk[c].postId = lk[d].postId /\ lk[c].tagId = lk[d].tagId
        /\ ~lk[c].linked /\ lk[c].resp = 200
        /\ lk[d].linked /\ lk[d].resp = 200
        /\ CopiesIn(<<lk[c].postId, lk[c].tagId>>, postTags) = 1

\* A getAllPosts request answered 200 for one of the three scopes.
Listed == ls.pc = "done" /\ ls.resp = 200 /\ ls.status \in StatusEnum

\* The stored posts whose status is the scope of the request.
Matching == {p \in posts : p.status = ls.status}

\* C11: getAllPosts answers totalPages = ceil(N / limit), N the number of posts
\* of the scope, each counted once whatever its tags, and currentPage equal to
\* the requested page.
C11_TotalPages ==
    Listed => /\ ls.totalPages = CeilDiv(Cardinality(Matching), ls.limit)
              /\ ls.currentPage = ls.page

\* C12: getAllPosts answers only posts of the scope, at most limit of them,
\* and exactly those at positions (page-1)*limit+1 .. page*limit of the posts
\* of the scope taken newest first, each with its user and its tags.
C12_PageSlice ==
    Listed =>
        LET first == (ls.page - 1) * ls.limit
            n == Cardinality(Matching)
            Newer(p) == {q \in Matching : createdAt(q) > createdAt(p)}
        IN /\ Len(ls.rows) <= ls.limit
           /\ Len(ls.rows) = IF n <= first THEN 0
                             ELSE IF n - first < ls.limit THEN n - first
                             ELSE ls.limit
           /\ \A i \in DOMAIN ls.rows :
                 /\ ls.rows[i].post \in Matching
                 /\ Cardinality(Newer(ls.rows[i].post)) = first + i - 1
                 /\ ls.rows[i].User = {u \in users : u.id = ls.rows[i].post.userId}
                 /\ ls.rows[i].Tags =
                        {t \in tags : BagIn(<<ls.rows[i].post.id, t.id>>, postTags)}

\* C12 witness: the second page of two of the active posts was answered, its
\* first row a post with tags.
C12_Witness ==
    /\ Listed
    /\ ls.status = "active" /\ ls.page = 2 /\ ls.limit = 2
    /\ Len(ls.rows) = 2
    /\ ls.rows[1].Tags # {}

\* C13: getAllPosts with a scope name other than active, draft and archived
\* is answered with an error and no rows.
C13_UnknownScopeRejected ==
    ls.pc = "done" /\ ls.status \notin StatusEnum
        => ls.resp = 500 /\ ls.err # "" /\ ls.rows = <<>>

\* A step of client c's request on a join route.
LinkStep(c, op) == lk'[c] # lk[c] /\ lk'[c].op = op

\* C14: removeTagFromPost for an existing post and tag is answered 200 and
\* deletes the join row of that pair and no other row (none when the pair is
\* not joined); when the post or the tag is missing it is answered with the
\* combined not-found error and nothing is written.
C14_RemoveTag ==
    [][\A c \in Clients :
          LinkStep(c, "removeTagFromPost") =>
              /\ <<users, profiles, posts, tags>>' = <<users, profiles, posts, tags>>
              /\ lk[c].pc = "findTagR" =>
                    /\ postTags' = postTags
                    /\ IF lk[c].post = {} \/ findByPk(tags, lk[c].tagId) = {}
                       THEN /\ lk'[c].pc = "done" /\ lk'[c].resp = 404
                            /\ lk'[c].err = "Post or Tag not found"
                       ELSE lk'[c].pc = "destroy"
              /\ lk[c].pc = "destroy" =>
                    /\ lk'[c].pc = "done" /\ lk'[c].resp = 200 /\ lk'[c].err = ""
                    /\ ~BagIn(<<lk[c].postId, lk[c].tagId>>, postTags')
                    /\ \A q \in BagToSet(postTags) \cup BagToSet(postTags') :
                          q # <<lk[c].postId, lk[c].tagId>> =>
                              CopiesIn(q, postTags') = CopiesIn(q, postTags)]_vars

\* C14 witness: two removeTagFromPost requests were answered 200, one having
\* deleted the pair's row and one having found none to delete, with other
\* tags still joined to the post.
C14_Witness ==
    \E c, d \in Clients :
        /\ lk[c].op = "removeTagFromPost" /\ lk[c].pc = "done"
        /\ lk[c].resp = 200 /\ lk[c].linked
        /\ lk[d].op = "removeTagFromPost" /\ lk[d].pc = "done"
        /\ lk[d].resp = 200 /\ ~lk[d].linked
        /\ \E q \in BagToSet(postTags) : q[1] = lk[c].postId

\* C15: addTagToPost is answered with the combined not-found error, and
\* inserts no join row, whenever its lookups find no post or no tag, a
\* deleted tag included.
C15_AddTagNotFound ==
    [][\A c \in Clients :
          /\ LinkStep(c, "addTagToPost")
          /\ lk[c].pc = "findTag"
          /\ lk[c].post = {} \/ findByPk(tags, lk[c].tagId) = {}
          => /\ lk'[c].pc = "done" /\ lk'[c].resp = 404
             /\ lk'[c].err = "Post or Tag not found"
             /\ postTags' = postTags]_vars

\* C15 witness: a tag was deleted and an addTagToPost request naming it and a
\* stored post was answered 404.
C15_Witness ==
    \E c, d \in Clients :
        /\ tg[d].op = "deleteTag" /\ tg[d].resp = 204
        /\ lk[c].op = "addTagToPost" /\ lk[c].pc = "done" /\ lk[c].resp = 404
        /\ lk[c].tagId = tg[d].id
        /\ lk[c].post # {} /\ lk[c].tag = {}

\* C16: a createPost call whose userId names no stored user fails with 'User
\* not found' without having written: none of its steps changes the posts,
\* tags or join rows, and it creates no post and no tag, whatever its tags.
C16_MissingUserNoWrite ==
    [][\A c \in Clients :
          /\ cp'[c] # cp[c]
          /\ cp'[c].pc \notin {"idle", "findUser"}
          /\ findByPk(users, cp'[c].userId) = {}
          => /\ cp'[c].err = "User not found"
             /\ cp'[c].post = {} /\ cp'[c].postId = 0 /\ cp'[c].made = {}
             /\ cp'[c].sub = <<>> /\ cp'[c].links = <<>>
             /\ <<posts, tags, postTags>>' = <<posts, tags, postTags>>]_vars

\* C16 witness: a call naming no stored user and a tag that is not stored
\* was answered, and no tag of that name is stored.
C16_Witness ==
    \E c \in Clients :
        /\ Answered(cp[c]) /\ cp[c].err = "User not found"
        /\ findByPk(users, cp[c].userId) = {}
        /\ cp[c].tags # <<>>
        /\ \A i \in DOMAIN cp[c].tags : findAllByName(tags, cp[c].tags[i]) = {}

\* C17: a createPost call that fails for a missing user is answered 404 'User
\* not found', an outcome other than that of a call failing validation.
C17_NotFoundOutcome ==
    \A c \in Clients :
        Answered(cp[c]) /\ cp[c].err = "User not found" =>
            /\ cp[c].resp = 404
            /\ \A d \in Clients :
                  Answered(cp[d]) /\ cp[d].err \notin {"", "User not found"}
                      => cp[d].resp # cp[c].resp

\* C20: the Post afterCreate hook has fired for a createPost call only once
\* the call has committed, and exactly once for a call that has committed.
C20_HookAfterCommit ==
    \A c \in Clients :
        /\ cp[c].hooks > 0 => Answered(cp[c]) /\ cp[c].resp = 201
        /\ Answered(cp[c]) /\ cp[c].resp = 201 => cp[c].hooks = 1

\* C18: getUserById answers 404 exactly when no user has the id; a stored user
\* is answered 200 with its row, its profile and its posts, the profile absent
\* and the posts empty when it has none.
C18_UserWithoutRelations ==
    \A id \in {u.id : u \in users} \cup UserIdArgs :
        LET got == getUserById(id)
            row == {u \in users : u.id = id}
        IN /\ got.status = 404 <=> row = {}
           /\ row # {} =>
                 /\ got.status = 200 /\ got.user = row
                 /\ got.Profile = {p \in profiles : p.userId = id}
                 /\ got.Posts = {p \in posts : p.userId = id}

\* C18 witness: a user is stored that has no profile and no post, and
\* getUserById answers it.
C18_Witness ==
    \E u \in users :
        /\ \A p \in profiles : p.userId # u.id
        /\ \A p \in posts : p.userId # u.id
        /\ getUserById(u.id).status = 200
        /\ getUserById(u.id).Profile = {} /\ getUserById(u.id).Posts = {}

\* The table tuple.
tables == <<users, profiles, posts, tags, postTags>>

\* What C19 asks of the statement of an update or delete request r -> r2 whose
\* key matches the rows hit: 404 exactly when no row matches, then no table
\* changes; after a 204 no row matches the key.
Keyed(r, r2, hit, hit2) ==
    /\ r2.resp = 404 <=> hit = {}
    /\ r2.resp = 404 => tables' = tables
    /\ r2.resp = 204 => hit2 = {}

\* C19: update and delete of a user, a post and a tag by id, and of a profile
\* by userId, are answered NotFound exactly when no row matches the key when
\* the statement runs, and then change no table; after a delete was answered
\* 204 no row matches the key.
C19_NotFoundIffNoRow ==
    [][\A c \in Clients :
          /\ us'[c] # us[c] /\ us[c].pc # "reload"
                /\ us'[c].op \in {"updateUser", "deleteUser"}
                => Keyed(us[c], us'[c], findByPk(users, us'[c].id),
                         findByPk(users', us'[c].id))
          /\ up'[c] # up[c] /\ up[c].pc # "reload"
                => Keyed(up[c], up'[c], findByPk(posts, up'[c].id),
                         findByPk(posts', up'[c].id))
          /\ tg'[c] # tg[c] /\ tg[c].pc # "reload"
                => Keyed(tg[c], tg'[c], findByPk(tags, tg'[c].id),
                         findByPk(tags', tg'[c].id))
          /\ pf'[c] # pf[c] /\ pf[c].pc # "reload"
                /\ pf'[c].op \in {"updateProfile", "deleteProfile"}
                => Keyed(pf[c], pf'[c], findAllByUserId(profiles, pf'[c].userId),
                         findAllByUserId(profiles', pf'[c].userId))]_vars

\* A deleteUser request answered 204 in this step, for the user `id`.
DeleteUserStep(c, id) ==
    /\ us'[c] # us[c]
    /\ us'[c].op = "deleteUser"
    /\ us'[c].id = id
    /\ us'[c].resp = 204

\* C21 as stated: deleteUser removes only the User row; the Profile and Post
\* rows of that user, and all Tag and PostTag rows, are left unchanged.
C21_OnlyUserRow ==
    [][\A c \in Clients, id \in CrudIdArgs :
           DeleteUserStep(c, id)
           => /\ users' = users \ findByPk(users, id)
              /\ profiles' = profiles
              /\ posts' = posts
              /\ tags' = tags
              /\ postTags' = postTags]_vars

\* C21, amended: deleteUser removes the User row together with the Profile and
\* Post rows of that user and the PostTag rows of those posts; every other
\* User, Profile, Post and PostTag row and all Tag rows are left unchanged.
C21_UserAndOwnedRows ==
    [][\A c \in Clients, id \in CrudIdArgs :
           DeleteUserStep(c, id)
           => /\ users' = {u \in users : u.id # id}
              /\ profiles' = {p \in profiles : p.userId # id}
              /\ posts' = {p \in posts : p.userId # id}
              /\ tags' = tags
              /\ \A q \in BagToSet(postTags) :
                     IF \E p \in posts : p.id = q[1] /\ p.userId = id
                     THEN ~BagIn(q, postTags')
                     ELSE BagIn(q, postTags')
                          /\ CopiesIn(q, postTags') = CopiesIn(q, postTags)
              /\ BagToSet(postTags') \subseteq BagToSet(postTags)]_vars

\* User 1 was deleted with its profile, its posts and their join rows, while
\* the rows of the other users and every tag are still stored.
C21_Witness ==
    \E c \in Clients :
        /\ us[c].op = "deleteUser" /\ us[c].id = 1 /\ us[c].resp = 204
        /\ findByPk(users, 1) = {}
        /\ findAllByUserId(profiles, 1) = {}
        /\ {p \in posts : p.userId = 1} = {}
        /\ \A q \in BagToSet(postTags) : \E p \in posts : p.id = q[1]
        /\ BagToSet(postTags) # {}
        /\ tags = SeededTags

-----------------------------------------------------------------------------
(* Properties of owned rows, checked under SpecOwner *)

\* The Profile and Post rows a step inserts, in a table or in a transaction.
InsertedOwned ==
    (profiles' \ profiles) \cup (posts' \ posts)
    \cup UNION {cp'[c].post \ cp[c].post : c \in Clients}

\* C22: every Profile row and every Post row is inserted only while its userId
\* names a stored User, whatever deleteUser does between the steps of
\* createProfile and createPost; and no stored or pending row loses its user.
C22_InsertedWithOwner ==
    [][/\ \A p \in InsertedOwned : findByPk(users, p.userId) # {}
       /\ \A p \in profiles' \cup posts' : findByPk(users', p.userId) # {}
       /\ \A c \in Clients :
              TxOpen(cp'[c]) => \A p \in cp'[c].post :
                                    findByPk(users', p.userId) # {}]_vars

\* A deleteUser landed between the lookup and the insert of a createProfile or
\* of a createPost, and the insert was refused.
C22_Witness ==
    /\ \E d \in Clients : us[d].op = "deleteUser" /\ us[d].resp = 204
    /\ \/ \E c \in Clients : /\ pf[c].op = "createProfile"
                             /\ pf[c].resp = 400
                             /\ pf[c].err = "foreign key constraint"
       \/ \E c \in Clients : /\ cp[c].pc = "done"
                             /\ cp[c].resp = 400
                             /\ cp[c].err = "foreign key constraint"

-----------------------------------------------------------------------------
(* Properties of createPost's status, checked under SpecFrame *)

\* The step in which client c's createPost commits and answers 201.
CommitStep(c) ==
    cp[c].pc = "commit" /\ cp'[c].pc = "done" /\ cp'[c].resp = 201

\* C23: a createPost without a status stores its Post row with status draft,
\* and one with a status of active, draft or archived stores exactly that
\* status.
C23_CreateStatus ==
    [][\A c \in Clients :
           CommitStep(c) /\ cp[c].status \in StatusEnum \cup {Undef}
           => \E p \in posts' \ posts :
                  /\ p.id = cp[c].postId
                  /\ p.status = IF cp[c].status = Undef THEN "draft"
                                ELSE cp[c].status]_vars

\* One request without a status and one with status archived were both
\* answered 201, and their rows are stored as draft and as archived.
C23_Witness ==
    \E c, d \in Clients :
        /\ cp[c].resp = 201 /\ cp[c].status = Undef
        /\ \E p \in posts : p.id = cp[c].postId /\ p.status = "draft"
        /\ cp[d].resp = 201 /\ cp[d].status = "archived"
        /\ \E p \in posts : p.id = cp[d].postId /\ p.status = "archived"

-----------------------------------------------------------------------------
(* Properties of the required columns, checked under SpecFields *)

\* A value that is present and not the empty string.
NonEmpty(v) == v \notin {Undef, Null, ""}

\* C24: every stored User has a non-empty firstName, lastName and email, every
\* stored Post a non-empty title and content, and every stored Tag a non-empty
\* name, whatever create and update requests are made, with empty or missing
\* values too; and a request answered with an error leaves the table of its
\* entity as it was.
C24_RequiredNonEmpty ==
    [][/\ \A u \in users' : /\ NonEmpty(u.firstName)
                            /\ NonEmpty(u.lastName)
                            /\ NonEmpty(u.email)
       /\ \A p \in posts' : NonEmpty(p.title) /\ NonEmpty(p.content)
       /\ \A t \in tags' : NonEmpty(t.name)
       /\ \A c \in Clients :
              /\ us'[c] # us[c] /\ us'[c].resp \in {400, 500} => users' = users
              /\ tg'[c] # tg[c] /\ tg'[c].resp = 400 => tags' = tags
              /\ cp'[c] # cp[c] /\ cp'[c].resp = 400 => posts' = posts]_vars

-----------------------------------------------------------------------------
(* Properties of the update handlers' answers, checked under SpecCrud *)

\* The row carries the value the request applied, if it applied one.
Applied(v, stored) == v = Undef \/ stored = v

\* C25: an update of a user, profile, post or tag answered 200 returns the
\* row with the values just applied and never an empty body, whatever other
\* update or delete of the same row runs between its write and its read.
C25_UpdateReturnsApplied ==
    \A c \in Clients :
        /\ up[c].pc = "done" /\ up[c].resp = 200
           => /\ up[c].body # {}
              /\ \A row \in up[c].body : /\ Applied(up[c].title, row.title)
                                         /\ Applied(up[c].content, row.content)
                                         /\ Applied(up[c].status, row.status)
        /\ us[c].pc = "done" /\ us[c].op = "updateUser" /\ us[c].resp = 200
           => /\ us[c].body # {}
              /\ \A row \in us[c].body :
                     /\ Applied(us[c].firstName, row.firstName)
                     /\ Applied(us[c].lastName, row.lastName)
                     /\ Applied(us[c].email, row.email)
        /\ tg[c].pc = "done" /\ tg[c].op = "updateTag" /\ tg[c].resp = 200
           => /\ tg[c].body # {}
              /\ \A row \in tg[c].body : Applied(tg[c].name, row.name)
        /\ pf[c].pc = "done" /\ pf[c].op = "updateProfile" /\ pf[c].resp = 200
           => /\ pf[c].body # {}
              /\ \A row \in pf[c].body : Applied(pf[c].bio, row.bio)

-----------------------------------------------------------------------------
(* Properties of createPost's transaction, checked under SpecTxn *)

\* C26: every createPost ends with exactly one response and its transaction
\* is finished by exactly one of commit and rollback: no request is left
\* without a response, rollback is never called after a commit was attempted,
\* a 201 is answered only on a committed and a 400 only on a rolled-back
\* transaction, the rollback being complete before the 400 is sent.
C26_OneOutcome ==
    \A c \in Clients :
        /\ cp[c].pc # "rejected"
        /\ cp[c].pc = "rollback" => cp[c].txn = "open"
        /\ cp[c].pc = "done"
           => /\ cp[c].resp \in {201, 400}
              /\ cp[c].resp = 201 <=> cp[c].txn = "commit"
              /\ cp[c].resp = 400 <=> cp[c].txn = "rollback"

-----------------------------------------------------------------------------
(* Properties of createPost's steps, checked under SpecPost *)

\* C27: within one createPost the steps run in the order user lookup, Post
\* insert, Tag find-or-create, join-row inserts, commit; and while the
\* request's transaction is open none of the rows these steps wrote, the
\* Post, a newly created Tag and the join rows, is in the committed tables
\* where another request could read it.
C27_OrderedAndHidden ==
    [][\A c \in Clients :
           /\ cp'[c].pc = "create" => cp[c].pc \in {"findUser", "create"}
           /\ cp'[c].pc = "hook" => cp[c].pc \in {"create", "hook"}
           /\ cp'[c].pc = "tags" => cp[c].pc \in {"hook", "tags"}
           /\ cp'[c].pc = "commit" => cp[c].pc \in {"hook", "tags", "commit"}
           /\ cp'[c].pc = "done" /\ cp'[c].resp = 201
              => cp[c].pc \in {"commit", "done"}
           /\ TxOpen(cp'[c])
              => /\ \A p \in cp'[c].post : p \notin posts'
                 /\ \A i \in DOMAIN cp'[c].links :
                        ~BagIn(cp'[c].links[i], postTags')
                 /\ \A t \in tags' : t.id \notin cp'[c].made]_vars

-----------------------------------------------------------------------------
(* Properties of the join rows' references, checked under SpecRefs *)

\* C28: every PostTag row names a stored Post and a stored Tag, and every
\* join row pending in an open transaction names a stored Tag, however
\* addTagToPost and createPost interleave with deletePost and deleteTag, a
\* delete between a request's lookups and its insert included.
C28_LinksRefer ==
    /\ \A q \in BagToSet(postTags) : /\ findByPk(posts, q[1]) # {}
                                     /\ findByPk(tags, q[2]) # {}
    /\ \A c \in Clients :
           TxOpen(cp[c]) => \A i \in DOMAIN cp[c].links :
                                findByPk(tags, cp[c].links[i][2]) # {}

\* A delete landed between the lookups and the insert of an addTagToPost or
\* of a createPost, and the insert of the join row was refused.
C28_Witness ==
    /\ \/ \E d \in Clients : tg[d].op = "deleteTag" /\ tg[d].resp = 204
       \/ \E d \in Clients : up[d].op = "deletePost" /\ up[d].resp = 204
    /\ \/ \E c \in Clients : /\ lk[c].op = "addTagToPost"
                             /\ lk[c].post # {} /\ lk[c].tag # {}
                             /\ lk[c].resp = 500
                             /\ lk[c].err = "foreign key constraint"
       \/ \E c \in Clients : /\ cp[c].pc = "done" /\ cp[c].resp = 400
                             /\ cp[c].postId # 0
                             /\ cp[c].err = "foreign key constraint"

-----------------------------------------------------------------------------
(* Properties of updatePost's writes, checked under SpecFrame *)

\* C29: updatePost changes only the title, content and status of the row it
\* addresses: the row keeps its id and userId and each of the three columns
\* the request omitted, every other Post row and every join row is as it
\* was, and so are the other tables.
C29_UpdateFrame ==
    [][\A c \in Clients :
           up'[c] # up[c] /\ up'[c].op = "updatePost"
           => /\ \A p \in posts :
                     IF p.id # up'[c].id
                     THEN p \in posts'
                     ELSE \E q \in posts' :
                              /\ q.id = p.id
                              /\ q.userId = p.userId
                              /\ up'[c].title = Undef => q.title = p.title
                              /\ up'[c].content = Undef => q.content = p.content
                              /\ up'[c].status = Undef => q.status = p.status
              /\ Cardinality(posts') = Cardinality(posts)
              /\ postTags' = postTags
              /\ users' = users /\ profiles' = profiles /\ tags' = tags]_vars

\* An updatePost that gave a new title and no content was answered 200 while
\* a second post, with join rows, is stored: the addressed row has the new
\* title and its old content.
C29_Witness ==
    \E c \in Clients :
        /\ up[c].op = "updatePost" /\ up[c].resp = 200
        /\ up[c].title = "abcde" /\ up[c].content = Undef
        /\ \E p \in posts : /\ p.id = up[c].id
                            /\ p.title = "abcde"
                            /\ p.content = "Alice discusses web development tips."
        /\ \E p \in posts : p.id # up[c].id /\ LinksOf(p.id) # {}

-----------------------------------------------------------------------------
(* Properties of getAllPosts' pages, checked under SpecPages *)

\* The ids of the posts getAllPosts can answer for a page when its row query
\* returns the scope's posts in the order `all`.
PageIds(all, page, limit) ==
    LET rows == PageRows(all, users, tags, postTags, Offset(page, limit), limit)
    IN {rows[i].post.id : i \in DOMAIN rows}

\* C30: on unchanged tables and for one scope and limit, the pages 1 to
\* totalPages that getAllPosts answers are pairwise disjoint and together are
\* exactly the posts of the scope, with posts of equal creation time and
\* posts with several tags among them. Each page is answered by a query of
\* its own.
C30_PagesPartition ==
    \A status \in StatusEnum, limit \in PageLimitArgs :
        LET rows == scope(posts, status)
            orders == OrderByCreatedAtDesc(rows)
            totalPages == CeilDiv(JoinedCount(rows, tags, postTags), limit)
        IN \A answer \in [1 .. totalPages -> orders] :
               /\ \A i, j \in 1 .. totalPages :
                      i # j => PageIds(answer[i], i, limit)
                                   \cap PageIds(answer[j], j, limit) = {}
               /\ UNION {PageIds(answer[i], i, limit) : i \in 1 .. totalPages}
                      = {p.id : p \in rows}

====
